---- MODULE Spec2Model ----
(***************************************************************************)
(* Outfit Vault (src/app.js, full-upgrade revision, lines 697-2012).       *)
(* The record store (IndexedDB), the in-memory snapshot state.outfits, the *)
(* derived view state.filtered, the selection, the delete+undo slot, the   *)
(* toast and its timers, and every asynchronous handler as a sequence of   *)
(* steps: one step per awaited store operation, each step carrying the     *)
(* synchronous code that follows the await.                                *)
(***************************************************************************)
EXTENDS Integers, Sequences, FiniteSets, TLC

VARIABLES
    store,        \* the "outfits" object store: a set of records, one per id
    outfits,      \* state.outfits: the snapshot, a sequence in key order
    filtered,     \* state.filtered
    search,       \* state.search
    sort,         \* state.sort
    filter,       \* state.filter: [fav, minRating, staleDays, tag]
    selectedId,   \* state.selectedId (0 = null)
    selectMode,   \* state.selectMode
    selectedSet,  \* state.selectedSet
    lastDeleted,  \* state.lastDeleted (Null or a record)
    undoTimer,    \* state.undoTimer: "null" or "set" (a handle: of the timer with cur = TRUE)
    toast,        \* el.toast / el.toastAction: [hidden, actionHidden, onclick, clicked]
    timers,       \* pending setTimeout callbacks: set of [kind, left, cur]
    detailHidden, \* el.detailModal.hidden / el.detailBackdrop.hidden
    procs,        \* the handlers in flight, by slot
    uidNext,      \* the next id uid() returns
    now,          \* Date.now(), in seconds
    ops,          \* the user's events so far in this session
    hist,         \* history: what the step just taken did
    ghost,        \* history: deletions, their values and their undo windows
    urlCache,     \* urlCache: id -> object URL of the card's thumbnail
    thumbs,       \* the object URLs the grid created that are not revoked
    selectedURL,  \* state.selectedURL (Null or an object URL)
    detailURLs,   \* the object URLs openDetail created that are not revoked
    revision,     \* which revision of the script the page runs
    schema        \* the database: [version, hasStore, indexes]

vars == <<store, outfits, filtered, search, sort, filter, selectedId, selectMode,
          selectedSet, lastDeleted, undoTimer, toast, timers, detailHidden,
          procs, uidNext, now, ops, hist, ghost, urlCache, thumbs, selectedURL,
          detailURLs, revision, schema>>

-----------------------------------------------------------------------------
(* Bounds of the model *)

NumInit == 2        \* ids 1..NumInit may be in the store at start
MaxUid == 4         \* uid() hands out ids NumInit+1 .. MaxUid
MaxInFlight == 2    \* handlers that may be suspended at an await at once
MaxWear == 2        \* wearToday is not started above this wearCount
TickMs == 1000      \* one Tick of the timer clock, in milliseconds
MaxOps == 5         \* user events in one session

(* Program constants *)

TOAST_FADE_MS == 170
MODAL_FADE_MS == 170
UNDO_MS == 5000
TTL_DELETED == 4500
TTL_BULK_DELETED == 5000
TTL_RESTORED == 1500
TTL_UPDATED == 1600
TTL_WORN == 1600
TTL_SAVED == 1800
TTL_SAVE_ERROR == 2500
TTL_IMPORTED == 2200
TTL_EXPORTED == 1800
TTL_FAVORITES == 1600
TTL_SELECT_MODE == 1300
STALE_DAYS == 30
MIN_RATING_4PLUS == 4
MAX_TAGS == 20           \* parseTags: .slice(0, 20)
DAY == 86400            \* 24 * 60 * 60 * 1000 ms, in seconds (TLC's integers are 32 bits wide)

-----------------------------------------------------------------------------
(* Text: a string is a sequence of one-character strings *)

PLACEHOLDER == <<"O","u","t","f","i","t"," ","s","e","n","z","a"," ","n","o","m","e">>

RECURSIVE TrimLeft(_)
TrimLeft(s) == IF s # <<>> /\ Head(s) = " " THEN TrimLeft(Tail(s)) ELSE s

RECURSIVE TrimRight(_)
TrimRight(s) ==
    IF s # <<>> /\ s[Len(s)] = " " THEN TrimRight(SubSeq(s, 1, Len(s) - 1)) ELSE s

Trim(s) == TrimRight(TrimLeft(s))

LowerChar(c) ==
    CASE c = "A" -> "a" [] c = "B" -> "b" [] OTHER -> c

ToLowerCase(s) == [i \in 1..Len(s) |-> LowerChar(s[i])]

Includes(s, q) ==
    \E i \in 0..(Len(s) - Len(q)) : SubSeq(s, i + 1, i + Len(q)) = q

(* JSON values as they appear in a backup document *)
JStr(s) == [t |-> "str", v |-> s]
JNum(n) == [t |-> "num", v |-> n]
JUndef == [t |-> "undef"]
JArr(a) == [t |-> "arr", v |-> a]

(* a truthy value that is no string has neither trim() nor split(): the call throws *)
NoStringMethods(j) == j.t = "num" /\ j.v # 0

(* safeName(name): (name || "").trim(), the placeholder when blank *)
SafeNameThrows(j) == NoStringMethods(j)

SafeName(j) ==
    LET s == IF j.t = "str" THEN Trim(j.v) ELSE <<>>
    IN  IF s # <<>> THEN s ELSE PLACEHOLDER

(* values clampRating may be handed besides an integer: a number with one *)
(* decimal (v tenths), an infinity, NaN, null                             *)
JFrac(v) == [t |-> "frac", v |-> v]
JInf == [t |-> "inf"]
JNaN == [t |-> "nan"]
JNull == [t |-> "null"]

Digits == <<"0", "1", "2", "3", "4", "5", "6", "7", "8", "9">>
IsDigit(c) == \E d \in 1..10 : Digits[d] = c
DigitValue(c) == (CHOOSE d \in 1..10 : Digits[d] = c) - 1

RECURSIVE DigitsValue(_)
DigitsValue(s) == IF s = <<>> THEN 0 ELSE 10 * DigitsValue(SubSeq(s, 1, Len(s) - 1)) + DigitValue(s[Len(s)])

NotANumber == [finite |-> FALSE, tenths |-> 0]
Finite(tenths) == [finite |-> TRUE, tenths |-> tenths]

(* Number(s) of a string: blank is 0; an optional sign, digits and at most *)
(* one decimal are that number; anything else is NaN                       *)
StringToNumber(s) ==
    LET body == Trim(s)
        neg == body # <<>> /\ Head(body) = "-"
        abs == IF body # <<>> /\ Head(body) \in {"-", "+"} THEN Tail(body) ELSE body
        dot == {i \in 1..Len(abs) : abs[i] = "."}
        int == IF dot = {} THEN abs ELSE SubSeq(abs, 1, (CHOOSE i \in dot : TRUE) - 1)
        dec == IF dot = {} THEN <<>> ELSE SubSeq(abs, (CHOOSE i \in dot : TRUE) + 1, Len(abs))
        value == 10 * DigitsValue(int) + DigitsValue(dec)
    IN  IF body = <<>> THEN Finite(0)
        ELSE IF /\ Cardinality(dot) <= 1
                /\ (int # <<>> \/ dec # <<>>)
                /\ Len(dec) <= 1
                /\ \A i \in 1..Len(int) : IsDigit(int[i])
                /\ \A i \in 1..Len(dec) : IsDigit(dec[i])
             THEN Finite(IF neg THEN -value ELSE value)
             ELSE NotANumber

(* Number(n), in tenths *)
ToNumber(j) ==
    CASE j.t = "num" -> Finite(10 * j.v)
      [] j.t = "frac" -> Finite(j.v)
      [] j.t = "str" -> StringToNumber(j.v)
      [] j.t = "null" -> Finite(0)
      [] OTHER -> NotANumber

(* Math.round: the nearest integer, a half going up *)
MathRound(tenths) == (tenths + 5) \div 10

Min(a, b) == IF a < b THEN a ELSE b
Max(a, b) == IF a > b THEN a ELSE b

(* a clamp without its lower bound *)
ClampRating_noFloor(n) ==
    LET x == ToNumber(n)
    IN  IF ~x.finite THEN 0 ELSE Min(5, MathRound(x.tenths))

(* clampRating(n) *)
ClampRating(n) ==
    LET x == ToNumber(n)
    IN  IF ~x.finite THEN 0 ELSE Min(5, Max(0, MathRound(x.tenths)))

(* raw.split(",") *)
RECURSIVE Split(_)
Split(s) ==
    IF \A i \in 1..Len(s) : s[i] # ","
    THEN <<s>>
    ELSE LET i == CHOOSE n \in 1..Len(s) : s[n] = "," /\ \A m \in 1..(n - 1) : s[m] # ","
         IN  <<SubSeq(s, 1, i - 1)>> \o Split(SubSeq(s, i + 1, Len(s)))

(* array.join(",") *)
RECURSIVE Join(_)
Join(a) ==
    IF a = <<>> THEN <<>>
    ELSE IF Len(a) = 1 THEN a[1]
    ELSE a[1] \o <<",">> \o Join(Tail(a))

(* Array.from(new Set(s)): the first occurrence of each element, in order *)
RECURSIVE Unique(_)
Unique(a) ==
    IF a = <<>> THEN <<>>
    ELSE LET r == Unique(SubSeq(a, 1, Len(a) - 1))
         IN  IF \E i \in 1..Len(r) : r[i] = a[Len(a)] THEN r ELSE Append(r, a[Len(a)])

NonEmpty(x) == x # <<>>

(* parseTags(raw) on a string *)
ParseTags(raw) ==
    LET parts == Split(raw)
        s == SelectSeq([i \in 1..Len(parts) |-> ToLowerCase(Trim(parts[i]))], NonEmpty)
        u == Unique(s)
    IN  SubSeq(u, 1, Min(MAX_TAGS, Len(u)))

-----------------------------------------------------------------------------
(* Images: a blob is a MIME type and a sequence of bytes; a data URL is      *)
(* data:<mime>;base64,<data>, its data a sequence of base64 digits 0..63     *)
(* and 64 for the padding character                                          *)

Blob(type, bytes) == [type |-> type, bytes |-> bytes]

RECURSIVE B64Encode(_)
B64Encode(b) ==
    IF b = <<>> THEN <<>>
    ELSE IF Len(b) = 1 THEN <<b[1] \div 4, (b[1] % 4) * 16, 64, 64>>
    ELSE IF Len(b) = 2
    THEN <<b[1] \div 4, (b[1] % 4) * 16 + b[2] \div 16, (b[2] % 16) * 4, 64>>
    ELSE <<b[1] \div 4, (b[1] % 4) * 16 + b[2] \div 16,
           (b[2] % 16) * 4 + b[3] \div 64, b[3] % 64>> \o B64Encode(SubSeq(b, 4, Len(b)))

B64Valid(s) ==
    /\ Len(s) % 4 = 0
    /\ \A i \in 1..Len(s) : s[i] \in 0..64
    /\ \A i \in 1..Len(s) : s[i] = 64 => i >= Len(s) - 1
    /\ s # <<>> /\ s[Len(s) - 1] = 64 => s[Len(s)] = 64

(* a decoder that takes the padding for digits *)
RECURSIVE B64Decode_padAsData(_)
B64Decode_padAsData(s) ==
    IF s = <<>> THEN <<>>
    ELSE <<s[1] * 4 + s[2] \div 16, ((s[2] % 16) * 16 + s[3] \div 4) % 256,
           ((s[3] % 4) * 64 + s[4]) % 256>> \o B64Decode_padAsData(SubSeq(s, 5, Len(s)))

RECURSIVE B64Decode(_)
B64Decode(s) ==
    IF s = <<>> THEN <<>>
    ELSE IF s[3] = 64 THEN <<s[1] * 4 + s[2] \div 16>>
    ELSE IF s[4] = 64 THEN <<s[1] * 4 + s[2] \div 16, (s[2] % 16) * 16 + s[3] \div 4>>
    ELSE <<s[1] * 4 + s[2] \div 16, (s[2] % 16) * 16 + s[3] \div 4,
           (s[3] % 4) * 64 + s[4]>> \o B64Decode(SubSeq(s, 5, Len(s)))

(* imageDataUrl of an entry: missing or "", a data URL, or some other string *)
NoUrl == [kind |-> "none", mime |-> "", data |-> <<>>]
OtherUrl == [kind |-> "other", mime |-> "", data |-> <<>>]
DataUrl(mime, data) == [kind |-> "data", mime |-> mime, data |-> data]

(* blobToDataURL(blob): FileReader.readAsDataURL *)
BlobToDataURL(blob) ==
    DataUrl(IF blob.type = "" THEN "application/octet-stream" ELSE blob.type,
            B64Encode(blob.bytes))

(* dataURLToBlob(dataUrl): fetch(dataUrl) rejects what it cannot load *)
FetchRejects(url) == url.kind # "data" \/ ~B64Valid(url.data)

DataURLToBlob(url) == Blob(url.mime, B64Decode(url.data))

-----------------------------------------------------------------------------
(* Records and the store *)

Null == [null |-> TRUE]

Outfit(id, name, rating, favorite, createdAt, imageBlob, tags, notes, wearCount, lastWornAt) ==
    [id |-> id, name |-> name, rating |-> rating, favorite |-> favorite,
     createdAt |-> createdAt, imageBlob |-> imageBlob, tags |-> tags,
     notes |-> notes, wearCount |-> wearCount, lastWornAt |-> lastWornAt]

IdsOf(S) == {r.id : r \in S}

SeqIds(s) == {s[i].id : i \in 1..Len(s)}

SeqSet(s) == {s[i] : i \in 1..Len(s)}

(* dbGetOutfit: req.result || null *)
DbGet(st, id) ==
    IF \E r \in st : r.id = id THEN CHOOSE r \in st : r.id = id ELSE Null

(* dbPutOutfit: insert or full replace *)
DbPut(st, r) == {x \in st : x.id # r.id} \cup {r}

(* dbDeleteOutfit *)
DbDelete(st, id) == {x \in st : x.id # id}

(* dbGetAllOutfits: every record, in key order *)
RECURSIVE DbGetAll(_)
(* the database as indexedDB.open finds it: no database is version 0 *)
DB_VERSION == 2

NoDB == [version |-> 0, hasStore |-> FALSE, indexes |-> {}]

BaselineIndexes == {"createdAt", "rating", "name", "favorite"}
FullIndexes == BaselineIndexes \cup {"wearCount", "lastWornAt"}

(* the indexes a revision's onupgradeneeded creates or adds *)
IndexesOf(rev) == IF rev = "full" THEN FullIndexes ELSE BaselineIndexes

(* openDB of revision rev: onupgradeneeded fires only when the database is *)
(* older than DB_VERSION; a newer one makes the open fail                  *)
OpenDB(db, rev) ==
    IF db.version >= DB_VERSION THEN db
    ELSE [version |-> DB_VERSION, hasStore |-> TRUE,
          indexes |-> (IF db.hasStore THEN db.indexes ELSE {}) \cup IndexesOf(rev)]

DbGetAll(st) ==
    IF st = {} THEN <<>>
    ELSE LET m == CHOOSE r \in st : \A x \in st : r.id <= x.id
         IN  <<m>> \o DbGetAll(st \ {m})

-----------------------------------------------------------------------------
(* The image normalizer.  JavaScript numbers are IEEE 754 doubles: a        *)
(* positive double is a significand of 53 binary digits, the first of them  *)
(* 1, and an exponent.  The 52 digits behind the first are kept as four     *)
(* limbs of 13: limbs = <<d1, d2, d3, d4>> and exp = e stand for            *)
(* (1 + d1/2^13 + d2/2^26 + d3/2^39 + d4/2^52) * 2^e.  Division and         *)
(* multiplication round to the nearest double, a tie to the even one.       *)

LimbBits == 13
Base == 8192            \* 2^LimbBits
Limbs == 4              \* 1 + Limbs * LimbBits = 53 digits

Front(x) == SubSeq(x, 1, Len(x) - 1)
Last(x) == x[Len(x)]

RECURSIVE Pow2(_)
Pow2(n) == IF n = 0 THEN 1 ELSE 2 * Pow2(n - 1)

(* the number of binary digits of n >= 1 *)
RECURSIVE BitLength(_)
BitLength(n) == IF n <= 1 THEN 1 ELSE 1 + BitLength(n \div 2)

(* limbs + c, the carry running from the last limb to the first *)
RECURSIVE AddLimbs(_, _)
AddLimbs(limbs, c) ==
    IF limbs = <<>> THEN [limbs |-> <<>>, carry |-> c]
    ELSE LET t == Last(limbs) + c
             front == AddLimbs(Front(limbs), t \div Base)
         IN  [limbs |-> front.limbs \o <<t % Base>>, carry |-> front.carry]

(* s * limbs + c, s a small positive integer *)
RECURSIVE MulLimbs(_, _, _)
MulLimbs(s, limbs, c) ==
    IF limbs = <<>> THEN [limbs |-> <<>>, carry |-> c]
    ELSE LET t == s * Last(limbs) + c
             front == MulLimbs(s, Front(limbs), t \div Base)
         IN  [limbs |-> front.limbs \o <<t % Base>>, carry |-> front.carry]

(* n more limbs of r / l, for 0 <= r < l, and what remains *)
RECURSIVE DivLimbs(_, _, _)
DivLimbs(r, l, n) ==
    IF n = 0 THEN [limbs |-> <<>>, rem |-> r]
    ELSE LET next == DivLimbs((r * Base) % l, l, n - 1)
         IN  [limbs |-> <<(r * Base) \div l>> \o next.limbs, rem |-> next.rem]

(* the exponent e of m / l: 2^e <= m / l < 2^(e+1) *)
RECURSIVE Exponent(_, _)
Exponent(m, l) ==
    IF m < l THEN Exponent(2 * m, l) - 1
    ELSE IF m >= 2 * l THEN Exponent(m, 2 * l) + 1
    ELSE 0

(* m / l of two positive integers, rounded to a double *)
DoubleDiv(m, l) ==
    LET e == Exponent(m, l)
        mm == IF e < 0 THEN m * Pow2(-e) ELSE m
        ll == IF e > 0 THEN l * Pow2(e) ELSE l
        q == DivLimbs(mm - ll, ll, Limbs)
        up == 2 * q.rem > ll \/ (2 * q.rem = ll /\ Last(q.limbs) % 2 = 1)
        sum == AddLimbs(q.limbs, IF up THEN 1 ELSE 0)
    IN  [limbs |-> sum.limbs, exp |-> e + sum.carry]

(* s * x of a positive integer and a double, rounded to 53 digits.  The     *)
(* result is top + limbs/2^52 times 2^exp, top holding the digits that the  *)
(* product has gained in front                                              *)
DoubleMul(s, x) ==
    LET low == MulLimbs(s, x.limbs, 0)
        top == s + low.carry
        unit == Pow2(BitLength(top) - 1)     \* the last digit a double keeps
        cut == Last(low.limbs) % unit
        up == 2 * cut > unit \/ (2 * cut = unit /\ (Last(low.limbs) \div unit) % 2 = 1)
        kept == AddLimbs(Front(low.limbs) \o <<Last(low.limbs) - cut>>, IF up THEN unit ELSE 0)
    IN  [top |-> top + kept.carry, limbs |-> kept.limbs, exp |-> x.exp]

(* a rounding that cuts the fraction off *)
DoubleRound_truncates(x) == x.top \div Pow2(-x.exp)

(* Math.round of such a product, for exp <= 0: floor(x + 1/2), exactly *)
DoubleRound(x) ==
    LET whole == x.top \div Pow2(-x.exp)
        half == IF x.exp = 0 THEN x.limbs[1] \div (Base \div 2)
                ELSE (x.top \div Pow2(-x.exp - 1)) % 2
    IN  whole + half

(* Math.round(side * scale) with scale = Math.min(1, maxSide / longer) *)
ScaledSide(side, maxSide, longer) ==
    IF maxSide >= longer THEN side
    ELSE DoubleRound(DoubleMul(side, DoubleDiv(maxSide, longer)))

(* a file the user picks: the size of its picture, whether createImageBitmap *)
(* decodes it, whether FileReader and Image decode it, and whether the       *)
(* canvas can encode the result (toBlob hands over a blob, not null)         *)
ImageFile(w, h, fast, slow, encodes) ==
    [width |-> w, height |-> h, fast |-> fast, slow |-> slow, encodes |-> encodes]

(* what a normalizer call ends with: a rejection, the input handed back, or *)
(* a JPEG of the given size; for a crop also the source square              *)
Rejected == [result |-> "rejected"]
Original(file) == [result |-> "original", file |-> file]
Jpeg(w, h) == [result |-> "jpeg", width |-> w, height |-> h]

(* fileToSafeJpegBlob(file, maxSide): the second decode's rejection is not *)
(* caught                                                                  *)
FileToSafeJpegBlob(file, maxSide) ==
    LET w == file.width
        h == file.height
        cw == Max(1, ScaledSide(w, maxSide, Max(w, h)))
        ch == Max(1, ScaledSide(h, maxSide, Max(w, h)))
    IN  IF ~file.fast /\ ~file.slow THEN Rejected
        ELSE IF file.encodes THEN Jpeg(cw, ch)
        ELSE Original(file)

(* a crop whose source square starts at the corner *)
CropCenterSquareToJpeg_fromCorner(file, maxSide) ==
    LET side == Min(file.width, file.height)
        outSide == Min(maxSide, side)
    IN  IF ~file.fast THEN FileToSafeJpegBlob(file, maxSide)
        ELSE IF file.encodes
             THEN [Jpeg(outSide, outSide) EXCEPT !.result = "square"] @@
                  [sx |-> 0, sy |-> 0, side |-> side]
             ELSE Original(file)

(* the arguments of the add operations' call: fileToSafeJpegBlob(file, 1600, 0.9) *)
ADD_MAX_SIDE == 1600

(* a picture every path decodes and the canvas encodes *)
Picture == ImageFile(2000, 800, TRUE, TRUE, TRUE)

(* the blob an add operation stores for what the normalizer hands back: the *)
(* canvas's JPEG, or the picked file itself                                 *)
StoredBlob(out) ==
    IF out.result = "jpeg" THEN Blob("image/jpeg", <<8>>) ELSE Blob("image/png", <<7>>)

(* cropCenterSquareToJpeg(blobOrFile, maxSide) *)
CropCenterSquareToJpeg(file, maxSide) ==
    LET w == file.width
        h == file.height
        side == Min(w, h)
        sx == (w - side) \div 2
        sy == (h - side) \div 2
        outSide == Min(maxSide, side)
    IN  IF ~file.fast THEN FileToSafeJpegBlob(file, maxSide)
        ELSE IF file.encodes
             THEN [Jpeg(outSide, outSide) EXCEPT !.result = "square"] @@
                  [sx |-> sx, sy |-> sy, side |-> side]
             ELSE Original(file)

-----------------------------------------------------------------------------
(* Filters and sorting *)

CharRank(c) ==
    CASE c = " " -> 0 [] c = "a" -> 1 [] c = "A" -> 2 [] c = "b" -> 3
      [] c = "B" -> 4 [] OTHER -> 5

(* String.prototype.localeCompare on the model's alphabet: -1, 0 or 1 *)
RECURSIVE LocaleCompare(_, _)
LocaleCompare(x, y) ==
    IF x = <<>> /\ y = <<>> THEN 0
    ELSE IF x = <<>> THEN -1
    ELSE IF y = <<>> THEN 1
    ELSE IF CharRank(Head(x)) < CharRank(Head(y)) THEN -1
    ELSE IF CharRank(Head(x)) > CharRank(Head(y)) THEN 1
    ELSE LocaleCompare(Tail(x), Tail(y))

Fav01(o) == IF o.favorite THEN 1 ELSE 0

(* The comparator handed to arr.sort in applyFiltersAndSort *)
SortCompare(s, a, b) ==
    CASE s = "fav_first" ->
            IF Fav01(b) # Fav01(a) THEN Fav01(b) - Fav01(a)
            ELSE b.createdAt - a.createdAt
      [] s = "date_desc" -> b.createdAt - a.createdAt
      [] s = "date_asc" -> a.createdAt - b.createdAt
      [] s = "rating_desc" -> b.rating - a.rating
      [] s = "rating_asc" -> a.rating - b.rating
      [] s = "name_asc" -> LocaleCompare(a.name, b.name)
      [] s = "name_desc" -> LocaleCompare(b.name, a.name)
      [] s = "wear_desc" -> b.wearCount - a.wearCount
      [] s = "wear_asc" -> a.wearCount - b.wearCount
      [] s = "lastworn_asc" -> a.lastWornAt - b.lastWornAt
      [] s = "lastworn_desc" -> b.lastWornAt - a.lastWornAt
      [] OTHER -> 0

(* Array.prototype.sort is stable: x goes after every element not greater *)
RECURSIVE InsertSorted(_, _, _)
InsertSorted(s, sorted, x) ==
    IF sorted = <<>> THEN <<x>>
    ELSE IF SortCompare(s, Head(sorted), x) <= 0
         THEN <<Head(sorted)>> \o InsertSorted(s, Tail(sorted), x)
         ELSE <<x>> \o sorted

RECURSIVE StableSort(_, _)
StableSort(s, arr) ==
    IF arr = <<>> THEN <<>>
    ELSE InsertSorted(s, StableSort(s, SubSeq(arr, 1, Len(arr) - 1)), arr[Len(arr)])

(* a tag test that also accepts a tag the filter's tag is only a part of *)
HasTag_includes(o, tag) == \E i \in 1..Len(o.tags) : Includes(o.tags[i], tag)

(* (o.tags || []).includes(state.filter.tag): Array.prototype.includes *)
HasTag(o, tag) == \E i \in 1..Len(o.tags) : o.tags[i] = tag

(* The filter part of applyFiltersAndSort: does record o pass every active one *)
(* a filter that applies the stale limit whether or not staleDays is set *)
PassesFilters_staleAlways(o, srch, srt, flt, t) ==
    LET q == ToLowerCase(Trim(srch))
        limit == t - flt.staleDays * DAY
    IN  /\ flt.fav => o.favorite
        /\ flt.minRating > 0 => o.rating >= flt.minRating
        /\ (o.lastWornAt = 0 \/ o.lastWornAt < limit)
        /\ flt.tag # <<>> => HasTag(o, flt.tag)
        /\ q # <<>> => (Includes(ToLowerCase(o.name), q) \/ Includes(ToLowerCase(o.notes), q))
        /\ srt = "fav_only" => o.favorite

(* a filter under which fav_only only sorts *)
PassesFilters_favOnlySorts(o, srch, srt, flt, t) ==
    LET q == ToLowerCase(Trim(srch))
        limit == t - flt.staleDays * DAY
    IN  /\ flt.fav => o.favorite
        /\ flt.minRating > 0 => o.rating >= flt.minRating
        /\ flt.staleDays > 0 => (o.lastWornAt = 0 \/ o.lastWornAt < limit)
        /\ flt.tag # <<>> => HasTag(o, flt.tag)
        /\ q # <<>> => (Includes(ToLowerCase(o.name), q) \/ Includes(ToLowerCase(o.notes), q))

PassesFilters(o, srch, srt, flt, t) ==
    LET q == ToLowerCase(Trim(srch))
        limit == t - flt.staleDays * DAY
    IN  /\ flt.fav => o.favorite
        /\ flt.minRating > 0 => o.rating >= flt.minRating
        /\ flt.staleDays > 0 => (o.lastWornAt = 0 \/ o.lastWornAt < limit)
        /\ flt.tag # <<>> => HasTag(o, flt.tag)
        /\ q # <<>> => (Includes(ToLowerCase(o.name), q) \/ Includes(ToLowerCase(o.notes), q))
        /\ srt = "fav_only" => o.favorite

ApplyFiltersAndSort(all, srch, srt, flt, t) ==
    LET Keep(o) == PassesFilters(o, srch, srt, flt, t)
    IN  StableSort(srt, SelectSeq(all, Keep))

(* applyFiltersAndSort of the two earlier revisions: the query is looked up *)
(* in the name only, there are no quick filters, and the comparator knows   *)
(* seven modes                                                              *)
EarlySortModes ==
    {"fav_first", "date_desc", "date_asc", "rating_desc", "rating_asc", "name_asc", "name_desc"}

ApplyFiltersAndSortEarly(all, srch, srt) ==
    LET q == ToLowerCase(Trim(srch))
        Keep(o) == /\ q # <<>> => Includes(ToLowerCase(o.name), q)
                   /\ srt = "fav_only" => o.favorite
    IN  StableSort(IF srt \in EarlySortModes THEN srt ELSE "none", SelectSeq(all, Keep))

(* renderGrid: recompute the view (the cards themselves are not modelled) *)
RenderGrid(all, srch, srt, flt, t) == ApplyFiltersAndSort(all, srch, srt, flt, t)

-----------------------------------------------------------------------------
(* Object URLs.  URL.createObjectURL returns a string no live URL has: the *)
(* model numbers the URLs of a record from 1 and takes the least free one  *)

Revisions == {"baseline", "middle", "full"}

ObjectURL(kind, id, n) == [kind |-> kind, id |-> id, n |-> n]

CreateObjectURL(live, kind, id) ==
    ObjectURL(kind, id,
              CHOOSE n \in 1..(Cardinality(live) + 1) :
                  /\ ObjectURL(kind, id, n) \notin live
                  /\ \A m \in 1..(n - 1) : ObjectURL(kind, id, m) \in live)

(* the thumbnails: t.cache is urlCache, t.live the URLs not revoked *)
Thumbs(cache, live) == [cache |-> cache, live |-> live]

NoCache == [id \in {} |-> Null]

(* a getThumbURL that does not look into the cache *)
GetThumbURL_alwaysCreates(t, outfit) ==
    LET url == CreateObjectURL(t.live, "thumb", outfit.id)
    IN  Thumbs([id \in DOMAIN t.cache \cup {outfit.id} |->
                  IF id = outfit.id THEN url ELSE t.cache[id]],
               t.live \cup {url})

(* getThumbURL(outfit): the cached URL, or a new one that is cached *)
GetThumbURL(t, outfit) ==
    IF outfit.id \in DOMAIN t.cache THEN t
    ELSE LET url == CreateObjectURL(t.live, "thumb", outfit.id)
         IN  Thumbs([id \in DOMAIN t.cache \cup {outfit.id} |->
                       IF id = outfit.id THEN url ELSE t.cache[id]],
                    t.live \cup {url})

(* revokeThumbURL(id) *)
RevokeThumbURL(t, id) ==
    IF id \notin DOMAIN t.cache THEN t
    ELSE Thumbs([x \in DOMAIN t.cache \ {id} |-> t.cache[x]], t.live \ {t.cache[id]})

(* a keepOnlyThumbs that forgets the entries without revoking their URLs *)
KeepOnlyThumbs_forgets(t, ids) ==
    Thumbs([x \in DOMAIN t.cache \cap ids |-> t.cache[x]], t.live)

(* keepOnlyThumbs(idsSet); resetThumbCacheKeeping in the middle revision *)
KeepOnlyThumbs(t, ids) ==
    Thumbs([x \in DOMAIN t.cache \cap ids |-> t.cache[x]],
           t.live \ {t.cache[x] : x \in DOMAIN t.cache \ ids})

(* renderGrid's loop over the cards: img.src = getThumbURL(outfit) *)
RECURSIVE CardThumbs(_, _, _)
CardThumbs(t, items, j) ==
    IF j > Len(items) THEN t ELSE CardThumbs(GetThumbURL(t, items[j]), items, j + 1)

(* the baseline's loop: img.src = makeObjectURL(outfit.imageBlob) *)
RECURSIVE CardURLs(_, _, _)
CardURLs(t, items, j) ==
    IF j > Len(items) THEN t
    ELSE CardURLs(Thumbs(t.cache, t.live \cup {CreateObjectURL(t.live, "thumb", items[j].id)}),
                  items, j + 1)

(* what renderGrid does to the URLs when it shows items *)
RenderThumbs(t, items, rev) ==
    IF rev = "baseline" THEN CardURLs(t, items, 1)
    ELSE CardThumbs(KeepOnlyThumbs(t, {items[j].id : j \in 1..Len(items)}), items, 1)

NoFilter == [fav |-> FALSE, minRating |-> 0, staleDays |-> 0, tag |-> <<>>]

(* setQuickFilter *)
QuickFilter(flt, fav, minRating, staleDays) ==
    [flt EXCEPT !.fav = fav, !.minRating = minRating, !.staleDays = staleDays]

-----------------------------------------------------------------------------
(* Timers, toast, modal *)

(* A setTimeout delay in Ticks of the timer clock *)
Ticks(ms) == ms \div TickMs

Timer(kind, ms) == [kind |-> kind, left |-> Ticks(ms), cur |-> FALSE]

NoAction == [kind |-> "none"]
SingleUndo == [kind |-> "single"]
BulkUndo(deleted) == [kind |-> "bulk", deleted |-> deleted]

(* showToast: the message is not modelled; the action button and its onclick are *)
ShowToast(action) ==
    [hidden |-> FALSE, actionHidden |-> action.kind = "none", onclick |-> action,
     clicked |-> FALSE]

(* the timer showToast leaves behind (ttlMs > 0 in every call of the program) *)
ToastTimers(tm, ttl) == tm \cup {Timer("toastTtl", ttl)}

(* hideToast: the toast is hidden when the fade has run *)
HideToast(tm) == tm \cup {Timer("toastHide", TOAST_FADE_MS)}

(* hideModal on the detail modal *)
HideModal(tm) == tm \cup {Timer("modalHide", MODAL_FADE_MS)}

(* clearTimeout(state.undoTimer) *)
ClearUndoTimer(tm) == {t \in tm : ~t.cur}

(* state.undoTimer = setTimeout(..., 5000): the handle now names the new timer *)
SetUndoTimer(tm) ==
    {[t EXCEPT !.cur = FALSE] : t \in tm} \cup {[kind |-> "undo", left |-> Ticks(UNDO_MS), cur |-> TRUE]}

-----------------------------------------------------------------------------
(* Handlers in flight *)

Proc(op, pc, id, rec, list, idx, aux) ==
    [op |-> op, pc |-> pc, id |-> id, rec |-> rec, list |-> list, idx |-> idx, aux |-> aux]

(* aux: a handler's locals beyond the common ones (target: targetFav, existing: *)
(* the id set of import, shape: the document's top level) and the history it   *)
(* carries: the store and snapshot when it started, whether it is a repeated   *)
(* invocation of one undo action, whether an undo was pending when it started, *)
(* how many records it has written                                             *)
NoAux ==
    [target |-> FALSE, existing |-> {}, shape |-> "",
     store0 |-> {}, outfits0 |-> <<>>, again |-> FALSE, pending |-> FALSE, written |-> 0,
     file |-> Picture]

Idle == Proc("idle", "", 0, Null, <<>>, 0, NoAux)

Slots == 1..MaxInFlight

InFlight == Cardinality({i \in Slots : procs[i] # Idle})

(* the user starts something only while fewer than k handlers are in flight *)
UserMay(k) == InFlight < k

(* a user event: allowed by UserMay, counted against the length of the session *)
User(k) == UserMay(k) /\ ops < MaxOps /\ ops' = ops + 1

FreeSlot == CHOOSE i \in Slots : procs[i] = Idle /\ \A j \in Slots : j < i => procs[j] # Idle

Spawn(p) == [procs EXCEPT ![FreeSlot] = p]

At(i, op, pc) == procs[i].op = op /\ procs[i].pc = pc

Goto(i, pc) == [procs EXCEPT ![i].pc = pc]

End(i) == [procs EXCEPT ![i] = Idle]

-----------------------------------------------------------------------------
(* Initial state: the page has loaded and init() has called refresh() *)

NOW0 == 8640000      \* Date.now() when the page loads, in seconds

InitName(id) == IF id = 1 THEN <<"a">> ELSE <<"B">>
InitRating(id) == IF id = 1 THEN 5 ELSE 3
InitTags(id) == IF id = 1 THEN <<<<"x">>>> ELSE <<>>

InitOutfit(id, fav) ==
    Outfit(id, InitName(id), InitRating(id), fav, id, Blob("image/jpeg", <<id>>), InitTags(id), <<>>,
           0, 0)

InitStores ==
    {S \in SUBSET {InitOutfit(id, fav) : id \in 1..NumInit, fav \in BOOLEAN} :
        \A a, b \in S : a.id = b.id => a = b}

NoHist == [ev |-> "none"]

NoGhost == [predel |-> {}, lastBatch |-> {}, superseded |-> FALSE, expired |-> {},
            undone |-> {}, imports |-> 0, file |-> Null, exported |-> <<>>]

(* everything but the store's content *)
InitView ==
    /\ outfits = <<>>
    /\ filtered = <<>>
    /\ search = <<>>
    /\ sort = "date_desc"
    /\ filter = NoFilter
    /\ selectedId = 0
    /\ selectMode = FALSE
    /\ selectedSet = {}
    /\ lastDeleted = Null
    /\ undoTimer = "null"
    /\ toast = [hidden |-> TRUE, actionHidden |-> TRUE, onclick |-> NoAction, clicked |-> FALSE]
    /\ timers = {}
    /\ detailHidden = TRUE
    /\ procs = [i \in Slots |-> IF i = 1 THEN Proc("refresh", "getAll", 0, Null, <<>>, 0, NoAux) ELSE Idle]
    /\ uidNext = NumInit + 1
    /\ now = NOW0
    /\ ops = 0
    /\ hist = NoHist
    /\ ghost = NoGhost
    /\ urlCache = NoCache
    /\ thumbs = {}
    /\ selectedURL = Null
    /\ detailURLs = {}

(* the full-upgrade revision over the database it has created *)
InitPage == revision = "full" /\ schema = OpenDB(NoDB, "full")

Init == store \in InitStores /\ InitView /\ InitPage

-----------------------------------------------------------------------------
(* refresh and the detail modal *)

critVars == <<search, sort, filter>>
selVars == <<selectMode, selectedSet>>
undoVars == <<lastDeleted, undoTimer>>
gridVars == <<filtered, urlCache, thumbs>>
detailVars == <<selectedId, selectedURL, detailURLs>>
pageVars == <<revision, schema>>
envVars == <<uidNext, now, ops, pageVars>>

(* renderGrid on the URLs t, state.filtered being up to date *)
ThumbsRendered(t) ==
    LET r == RenderThumbs(t, filtered', revision)
    IN  urlCache' = r.cache /\ thumbs' = r.live

CurrentThumbs == Thumbs(urlCache, thumbs)

(* an openDetail that does not revoke the URL it replaces *)
DetailURLOpened_keepsOld(id) ==
    LET url == CreateObjectURL(detailURLs, "detail", id)
    IN  selectedURL' = url /\ detailURLs' = detailURLs \cup {url}

(* openDetail: revoke state.selectedURL, create the URL of the image shown *)
DetailURLOpened(id) ==
    LET kept == IF selectedURL = Null THEN detailURLs ELSE detailURLs \ {selectedURL}
        url == CreateObjectURL(kept, "detail", id)
    IN  selectedURL' = url /\ detailURLs' = kept \cup {url}

(* closeDetailModal: revoke state.selectedURL, state.selectedURL = null *)
DetailURLClosed ==
    /\ detailURLs' = IF selectedURL = Null THEN detailURLs ELSE detailURLs \ {selectedURL}
    /\ selectedURL' = Null


(* refresh(): state.outfits = await dbGetAllOutfits(), then renderGrid() *)
RefreshView ==
    /\ outfits' = DbGetAll(store)
    /\ filtered' = RenderGrid(outfits', search, sort, filter, now)
    /\ ThumbsRendered(CurrentThumbs)

(* the refresh() that init() starts *)
InitialRefresh(i) ==
    /\ At(i, "refresh", "getAll")
    /\ RefreshView
    /\ procs' = End(i)
    /\ hist' = NoHist
    /\ UNCHANGED <<store, critVars, detailVars, detailHidden, selVars, undoVars,
                   toast, timers, envVars, ghost>>

(* a click on a card outside select mode: openDetail(id) up to its await *)
OpenDetailStart(k, id) ==
    /\ User(k)
    /\ ~selectMode
    /\ id \in SeqIds(filtered)
    /\ procs' = Spawn(Proc("openDetail", "get", id, Null, <<>>, 0, NoAux))
    /\ hist' = NoHist
    /\ UNCHANGED <<store, outfits, gridVars, critVars, detailVars, detailHidden,
                   selVars, undoVars, toast, timers, uidNext, now, pageVars, ghost>>

(* openDetail after dbGetOutfit: fill the form, showModal *)
OpenDetailGet(i) ==
    /\ At(i, "openDetail", "get")
    /\ IF DbGet(store, procs[i].id) = Null
       THEN /\ UNCHANGED <<detailVars, detailHidden>>
            /\ hist' = NoHist
       ELSE /\ selectedId' = procs[i].id
            /\ DetailURLOpened(procs[i].id)
            /\ detailHidden' = FALSE
            /\ hist' = [ev |-> "openDetail", before |-> selectedURL,
                        overlap |-> \E j \in Slots \ {i} : procs[j].op = "openDetail"]
    /\ procs' = End(i)
    /\ UNCHANGED <<store, outfits, gridVars, critVars, selVars, undoVars, toast,
                   timers, envVars, ghost>>

(* closeDetailModal: the close button, the backdrop, Escape *)
CloseDetailModal(k) ==
    /\ User(k)
    /\ ~detailHidden
    /\ timers' = HideModal(timers)
    /\ selectedId' = 0
    /\ DetailURLClosed
    /\ hist' = [ev |-> "closeDetail"]
    /\ UNCHANGED <<store, outfits, gridVars, critVars, detailHidden, selVars,
                   undoVars, toast, procs, uidNext, now, pageVars, ghost>>

(* what the user may have typed into the detail form *)
FormRatings == {0, 5}

(* saveDetail up to await dbGetOutfit(state.selectedId) *)
SaveDetailStart(k) ==
    /\ User(k)
    /\ ~detailHidden
    /\ selectedId # 0
    /\ procs' = Spawn(Proc("saveDetail", "get", selectedId, Null, <<>>, 0,
                           [NoAux EXCEPT !.store0 = store]))
    /\ hist' = NoHist
    /\ UNCHANGED <<store, outfits, gridVars, critVars, detailVars, detailHidden,
                   selVars, undoVars, toast, timers, uidNext, now, pageVars, ghost>>

(* the record saveDetail builds from the stored one and the form *)
SaveDetailUpdated(outfit, fav, rating) ==
    [outfit EXCEPT !.name = SafeName(JStr(outfit.name)),
                   !.rating = ClampRating(JNum(rating)),
                   !.favorite = fav,
                   !.notes = Trim(outfit.notes)]

SaveDetailGet(i) ==
    /\ At(i, "saveDetail", "get")
    /\ LET outfit == DbGet(store, procs[i].id)
       IN  IF outfit = Null
           THEN procs' = End(i)
           ELSE \E fav \in BOOLEAN, rating \in FormRatings :
                  procs' = [procs EXCEPT ![i].pc = "put",
                                         ![i].rec = SaveDetailUpdated(outfit, fav, rating)]
    /\ hist' = NoHist
    /\ UNCHANGED <<store, outfits, gridVars, critVars, detailVars, detailHidden,
                   selVars, undoVars, toast, timers, envVars, ghost>>

(* a store write that fails (quota, aborted transaction) rejects the await: *)
(* the handler ends there                                                     *)
StorageFail(i) ==
    /\ store' = store
    /\ procs' = End(i)
    /\ hist' = [ev |-> "storageFail", op |-> procs[i].op, store0 |-> procs[i].aux.store0]

SaveDetailPut(i) ==
    /\ At(i, "saveDetail", "put")
    /\ \/ /\ store' = DbPut(store, procs[i].rec)
          /\ procs' = Goto(i, "refresh")
          /\ hist' = [ev |-> "savePut", rec |-> procs[i].rec, before |-> DbGet(store, procs[i].rec.id)]
       \/ StorageFail(i)
    /\ UNCHANGED <<outfits, gridVars, critVars, detailVars, detailHidden, selVars,
                   undoVars, toast, timers, envVars, ghost>>

SaveDetailRefresh(i) ==
    /\ At(i, "saveDetail", "refresh")
    /\ RefreshView
    /\ toast' = ShowToast(NoAction)
    /\ timers' = ToastTimers(timers, TTL_UPDATED)
    /\ procs' = End(i)
    /\ hist' = NoHist
    /\ UNCHANGED <<store, critVars, detailVars, detailHidden, selVars, undoVars,
                   envVars, ghost>>

(* wearToday up to await dbGetOutfit(state.selectedId) *)
WearTodayStart(k) ==
    /\ User(k)
    /\ ~detailHidden
    /\ selectedId # 0
    /\ \A r \in store : r.wearCount < MaxWear
    /\ procs' = Spawn(Proc("wearToday", "get", selectedId, Null, <<>>, 0,
                           [NoAux EXCEPT !.store0 = store]))
    /\ hist' = NoHist
    /\ UNCHANGED <<store, outfits, gridVars, critVars, detailVars, detailHidden,
                   selVars, undoVars, toast, timers, uidNext, now, pageVars, ghost>>

WearTodayUpdated(outfit, t) ==
    [outfit EXCEPT !.wearCount = outfit.wearCount + 1, !.lastWornAt = t]

WearTodayGet(i) ==
    /\ At(i, "wearToday", "get")
    /\ LET outfit == DbGet(store, procs[i].id)
       IN  IF outfit = Null
           THEN procs' = End(i)
           ELSE procs' = [procs EXCEPT ![i].pc = "put",
                                       ![i].rec = WearTodayUpdated(outfit, now)]
    /\ hist' = NoHist
    /\ UNCHANGED <<store, outfits, gridVars, critVars, detailVars, detailHidden,
                   selVars, undoVars, toast, timers, envVars, ghost>>

WearTodayPut(i) ==
    /\ At(i, "wearToday", "put")
    /\ \/ /\ store' = DbPut(store, procs[i].rec)
          /\ procs' = Goto(i, "refresh")
          /\ hist' = [ev |-> "wearPut", rec |-> procs[i].rec, before |-> DbGet(store, procs[i].rec.id)]
       \/ StorageFail(i)
    /\ UNCHANGED <<outfits, gridVars, critVars, detailVars, detailHidden, selVars,
                   undoVars, toast, timers, envVars, ghost>>

WearTodayRefresh(i) ==
    /\ At(i, "wearToday", "refresh")
    /\ RefreshView
    /\ toast' = ShowToast(NoAction)
    /\ timers' = ToastTimers(timers, TTL_WORN)
    /\ procs' = End(i)
    /\ hist' = NoHist
    /\ UNCHANGED <<store, critVars, detailVars, detailHidden, selVars, undoVars,
                   envVars, ghost>>

-----------------------------------------------------------------------------
(* Delete with undo (detail modal) *)

(* is an Undo on offer: the toast shows its action and the action can restore *)
UndoPending ==
    /\ ~toast.hidden
    /\ ~toast.actionHidden
    /\ \/ toast.onclick.kind = "bulk"
       \/ toast.onclick.kind = "single" /\ lastDeleted # Null

(* history: the store's value of the record a delete removes *)
NotePredel(g, st, id) ==
    IF DbGet(st, id) = Null THEN g ELSE [g EXCEPT !.predel = DbPut(g.predel, DbGet(st, id))]

(* history: a deletion has shown its Undo toast; it is now the most recent one *)
NoteDeletion(g, batch, pending) ==
    [g EXCEPT !.lastBatch = batch, !.superseded = pending, !.expired = g.expired \ batch,
              !.undone = {}]

DeleteDetailStart(k) ==
    /\ User(k)
    /\ ~detailHidden
    /\ selectedId # 0
    /\ procs' = Spawn(Proc("deleteDetail", "get", selectedId, Null, <<>>, 0,
                           [NoAux EXCEPT !.store0 = store, !.pending = UndoPending]))
    /\ hist' = NoHist
    /\ UNCHANGED <<store, outfits, gridVars, critVars, detailVars, detailHidden,
                   selVars, undoVars, toast, timers, uidNext, now, pageVars, ghost>>

(* DeleteDetailGet with a slot that keeps a pending deletion rather than *)
(* taking the new one                                                    *)
DeleteDetailGet_keepsEarlier(i) ==
    /\ At(i, "deleteDetail", "get")
    /\ LET outfit == DbGet(store, procs[i].id)
       IN  IF outfit = Null
           THEN /\ procs' = End(i)
                /\ UNCHANGED <<lastDeleted, timers, ghost>>
           ELSE /\ timers' = IF undoTimer # "null" THEN ClearUndoTimer(timers) ELSE timers
                /\ lastDeleted' = IF lastDeleted = Null THEN outfit ELSE lastDeleted
                /\ procs' = [procs EXCEPT ![i].pc = "delete", ![i].rec = outfit]
                /\ ghost' = [ghost EXCEPT !.expired = ghost.expired \ {outfit}]
    /\ hist' = NoHist
    /\ UNCHANGED <<store, outfits, gridVars, critVars, detailVars, detailHidden,
                   selVars, undoTimer, toast, envVars>>

(* after dbGetOutfit: clearTimeout(state.undoTimer); state.lastDeleted = outfit *)
DeleteDetailGet(i) ==
    /\ At(i, "deleteDetail", "get")
    /\ LET outfit == DbGet(store, procs[i].id)
       IN  IF outfit = Null
           THEN /\ procs' = End(i)
                /\ UNCHANGED <<lastDeleted, timers, ghost>>
           ELSE /\ timers' = IF undoTimer # "null" THEN ClearUndoTimer(timers) ELSE timers
                /\ lastDeleted' = outfit
                /\ procs' = [procs EXCEPT ![i].pc = "delete", ![i].rec = outfit]
                /\ ghost' = [ghost EXCEPT !.expired = ghost.expired \ {outfit}]
    /\ hist' = NoHist
    /\ UNCHANGED <<store, outfits, gridVars, critVars, detailVars, detailHidden,
                   selVars, undoTimer, toast, envVars>>

(* after dbDeleteOutfit: revokeThumbURL, closeDetailModal *)
DeleteDetailDelete(i) ==
    /\ At(i, "deleteDetail", "delete")
    /\ \/ /\ store' = DbDelete(store, procs[i].rec.id)
          /\ LET t == RevokeThumbURL(CurrentThumbs, procs[i].rec.id)
             IN  urlCache' = t.cache /\ thumbs' = t.live
          /\ timers' = HideModal(timers)
          /\ selectedId' = 0
          /\ DetailURLClosed
          /\ procs' = Goto(i, "refresh")
          /\ ghost' = NotePredel(ghost, store, procs[i].rec.id)
          /\ hist' = [ev |-> "deleted", ids |-> {procs[i].rec.id}]
       \/ /\ StorageFail(i)
          /\ UNCHANGED <<timers, detailVars, ghost, urlCache, thumbs>>
    /\ UNCHANGED <<outfits, filtered, critVars, detailHidden, selVars, undoVars,
                   toast, envVars>>

(* after refresh: the Undo toast and the timer that clears state.lastDeleted *)
DeleteDetailRefresh(i) ==
    /\ At(i, "deleteDetail", "refresh")
    /\ RefreshView
    /\ toast' = ShowToast(SingleUndo)
    /\ timers' = SetUndoTimer(ToastTimers(timers, TTL_DELETED))
    /\ undoTimer' = "set"
    /\ procs' = End(i)
    /\ ghost' = NoteDeletion(ghost, {procs[i].rec}, procs[i].aux.pending)
    /\ hist' = [ev |-> "deleteDone", ids |-> {procs[i].rec.id}]
    /\ UNCHANGED <<store, critVars, detailVars, detailHidden, selVars, lastDeleted,
                   envVars>>

(* a second click on Undo while the undo of the first click is still running *)
UserAgain ==
    /\ InFlight < MaxInFlight
    /\ \A i \in Slots : procs[i].op \in {"idle", "undoSingle", "undoBulk"}
    /\ toast.clicked
    /\ ops < MaxOps /\ ops' = ops + 1

(* the records an invocation of the toast's action will put back *)
UndoRecords ==
    IF toast.onclick.kind = "bulk" THEN SeqSet(toast.onclick.deleted)
    ELSE IF lastDeleted = Null THEN {} ELSE {lastDeleted}

(* a click on the toast's action: onAction() up to its first await, then hideToast() *)
ToastActionClick(k) ==
    /\ User(k) \/ UserAgain
    /\ ~toast.hidden
    /\ ~toast.actionHidden
    /\ toast.onclick.kind # "none"
    /\ LET a == [NoAux EXCEPT !.store0 = store, !.again = toast.clicked]
       IN  IF toast.onclick.kind = "bulk"
           THEN procs' = Spawn(Proc("undoBulk", "put", 0, Null, toast.onclick.deleted, 1, a))
           ELSE IF lastDeleted = Null
                THEN procs' = procs
                ELSE procs' = Spawn(Proc("undoSingle", "put", 0, lastDeleted, <<>>, 0, a))
    /\ toast' = [toast EXCEPT !.clicked = TRUE]
    /\ timers' = HideToast(timers)
    /\ hist' = [ev |-> "undoClick", recs |-> UndoRecords, again |-> toast.clicked]
    /\ UNCHANGED <<store, outfits, gridVars, critVars, detailVars, detailHidden,
                   selVars, undoVars, uidNext, now, pageVars, ghost>>

(* history of one undo write *)
UndoPutEvent(i, r) ==
    [ev |-> "undoPut", rec |-> r, again |-> r \in ghost.undone,
     changed |-> DbPut(store, r) # store]

(* history: the records the undo of the most recent deletion has put back *)
NoteUndone(g, r) == [g EXCEPT !.undone = g.undone \cup {r}]

(* the single undo after dbPutOutfit(state.lastDeleted) *)
UndoSinglePut(i) ==
    /\ At(i, "undoSingle", "put")
    /\ \/ /\ store' = DbPut(store, procs[i].rec)
          /\ lastDeleted' = Null
          /\ procs' = Goto(i, "refresh")
          /\ hist' = UndoPutEvent(i, procs[i].rec)
          /\ ghost' = NoteUndone(ghost, procs[i].rec)
       \/ /\ StorageFail(i)
          /\ UNCHANGED <<lastDeleted, ghost>>
    /\ UNCHANGED <<outfits, gridVars, critVars, detailVars, detailHidden, selVars,
                   undoTimer, toast, timers, envVars>>

UndoRefresh(i) ==
    /\ procs[i].op \in {"undoSingle", "undoBulk"}
    /\ procs[i].pc = "refresh"
    /\ RefreshView
    /\ toast' = ShowToast(NoAction)
    /\ timers' = ToastTimers(timers, TTL_RESTORED)
    /\ procs' = End(i)
    /\ hist' = [ev |-> "undoDone"]
    /\ UNCHANGED <<store, critVars, detailVars, detailHidden, selVars, undoVars,
                   envVars, ghost>>

(* the bulk undo: for (const o of deleted) await dbPutOutfit(o) *)
UndoBulkPut(i) ==
    /\ At(i, "undoBulk", "put")
    /\ LET p == procs[i]
       IN  \/ /\ store' = DbPut(store, p.list[p.idx])
              /\ procs' = IF p.idx < Len(p.list)
                          THEN [procs EXCEPT ![i].idx = p.idx + 1]
                          ELSE Goto(i, "refresh")
              /\ hist' = UndoPutEvent(i, p.list[p.idx])
              /\ ghost' = NoteUndone(ghost, p.list[p.idx])
           \/ StorageFail(i) /\ UNCHANGED ghost
    /\ UNCHANGED <<outfits, gridVars, critVars, detailVars, detailHidden, selVars,
                   undoVars, toast, timers, envVars>>

-----------------------------------------------------------------------------
(* Timers *)

Tick ==
    /\ timers # {}
    /\ \A t \in timers : t.left > 0
    /\ timers' = {[t EXCEPT !.left = t.left - 1] : t \in timers}
    /\ hist' = NoHist
    /\ UNCHANGED <<store, outfits, gridVars, critVars, detailVars, detailHidden,
                   selVars, undoVars, toast, procs, envVars, ghost>>

Due(kind) == {t \in timers : t.kind = kind /\ t.left = 0}

(* showToast's timer: hideToast() *)
FireToastTtl ==
    /\ \E t \in Due("toastTtl") : timers' = HideToast(timers \ {t})
    /\ hist' = NoHist
    /\ UNCHANGED <<store, outfits, gridVars, critVars, detailVars, detailHidden,
                   selVars, undoVars, toast, procs, envVars, ghost>>

(* FireToastHide with a toast that stays on screen *)
FireToastHide_staysShown ==
    /\ \E t \in Due("toastHide") : timers' = timers \ {t}
    /\ toast' = toast
    /\ ghost' = IF ~toast.hidden /\ ~toast.actionHidden /\ toast.onclick.kind = "bulk"
                THEN [ghost EXCEPT !.expired = ghost.expired \cup SeqSet(toast.onclick.deleted)]
                ELSE ghost
    /\ hist' = NoHist
    /\ UNCHANGED <<store, outfits, gridVars, critVars, detailVars, detailHidden,
                   selVars, undoVars, procs, envVars>>

(* hideToast's timer: el.toast.hidden = true *)
FireToastHide ==
    /\ \E t \in Due("toastHide") : timers' = timers \ {t}
    /\ toast' = [toast EXCEPT !.hidden = TRUE]
    /\ ghost' = IF ~toast.hidden /\ ~toast.actionHidden /\ toast.onclick.kind = "bulk"
                THEN [ghost EXCEPT !.expired = ghost.expired \cup SeqSet(toast.onclick.deleted)]
                ELSE ghost
    /\ hist' = NoHist
    /\ UNCHANGED <<store, outfits, gridVars, critVars, detailVars, detailHidden,
                   selVars, undoVars, procs, envVars>>

(* hideModal's timer on the detail modal *)
FireModalHide ==
    /\ \E t \in Due("modalHide") : timers' = timers \ {t}
    /\ detailHidden' = TRUE
    /\ hist' = NoHist
    /\ UNCHANGED <<store, outfits, gridVars, critVars, detailVars, selVars, undoVars,
                   toast, procs, envVars, ghost>>

(* deleteDetailWithUndo's timer: state.lastDeleted = null; state.undoTimer = null *)
FireUndoTimer ==
    /\ \E t \in Due("undo") : timers' = {[x EXCEPT !.cur = FALSE] : x \in timers \ {t}}
    /\ lastDeleted' = Null
    /\ undoTimer' = "null"
    /\ ghost' = IF lastDeleted = Null THEN ghost
                ELSE [ghost EXCEPT !.expired = ghost.expired \cup {lastDeleted}]
    /\ hist' = NoHist
    /\ UNCHANGED <<store, outfits, gridVars, critVars, detailVars, detailHidden,
                   selVars, toast, procs, envVars>>

-----------------------------------------------------------------------------
(* Select mode and bulk actions *)

(* enableSelectMode(on): the selection is emptied when the mode goes off; *)
(* t is the thumbnails' state at the call                                 *)
EnableSelectMode(on, t) ==
    /\ selectMode' = on
    /\ selectedSet' = IF on THEN selectedSet ELSE {}
    /\ filtered' = RenderGrid(outfits, search, sort, filter, now)
    /\ ThumbsRendered(t)

(* the select-mode button: toggleSelectMode *)
ToggleSelectMode(k) ==
    /\ User(k)
    /\ EnableSelectMode(~selectMode, CurrentThumbs)
    /\ IF ~selectMode
       THEN /\ toast' = ShowToast(NoAction)
            /\ timers' = ToastTimers(timers, TTL_SELECT_MODE)
       ELSE UNCHANGED <<toast, timers>>
    /\ hist' = NoHist
    /\ UNCHANGED <<store, outfits, critVars, detailVars, detailHidden, undoVars,
                   procs, uidNext, now, pageVars, ghost>>

(* a click on a card in select mode: toggleSelection, then renderGrid *)
ToggleSelection(k, id) ==
    /\ User(k)
    /\ selectMode
    /\ id \in SeqIds(filtered)
    /\ selectedSet' = IF id \in selectedSet THEN selectedSet \ {id} ELSE selectedSet \cup {id}
    /\ filtered' = RenderGrid(outfits, search, sort, filter, now)
    /\ ThumbsRendered(CurrentThumbs)
    /\ hist' = NoHist
    /\ UNCHANGED <<store, outfits, critVars, detailVars, detailHidden, selectMode,
                   undoVars, toast, timers, procs, uidNext, now, pageVars, ghost>>

(* state.outfits.filter(o => ids.includes(o.id)) *)
SelectedOutfits ==
    LET Sel(o) == o.id \in selectedSet IN SelectSeq(outfits, Sel)

(* allFav decided by some selected favorite rather than by every one *)
AllFav_some(list) == \E j \in 1..Len(list) : list[j].favorite

(* allFav: selectedOutfits.length > 0 && selectedOutfits.every(o => !!o.favorite) *)
AllFav(list) == Len(list) > 0 /\ \A j \in 1..Len(list) : list[j].favorite

(* bulkToggleFavorite up to its first await *)
BulkToggleFavoriteStart(k) ==
    /\ User(k)
    /\ selectMode
    /\ selectedSet # {}
    /\ LET list == SelectedOutfits
           a == [NoAux EXCEPT !.target = ~AllFav(list), !.store0 = store]
       IN  procs' = Spawn(Proc("bulkFav", IF list = <<>> THEN "refresh" ELSE "put",
                               0, Null, list, 1, a))
    /\ hist' = NoHist
    /\ UNCHANGED <<store, outfits, gridVars, critVars, detailVars, detailHidden,
                   selVars, undoVars, toast, timers, uidNext, now, pageVars, ghost>>

(* await dbPutOutfit({ ...o, favorite: targetFav }) *)
BulkToggleFavoritePut(i) ==
    /\ At(i, "bulkFav", "put")
    /\ LET p == procs[i]
       IN  \/ /\ store' = DbPut(store, [p.list[p.idx] EXCEPT !.favorite = p.aux.target])
              /\ procs' = IF p.idx < Len(p.list)
                          THEN [procs EXCEPT ![i].idx = p.idx + 1]
                          ELSE Goto(i, "refresh")
              /\ hist' = [ev |-> "bulkFavPut", rec |-> p.list[p.idx],
                          before |-> DbGet(store, p.list[p.idx].id)]
           \/ StorageFail(i)
    /\ UNCHANGED <<outfits, gridVars, critVars, detailVars, detailHidden, selVars,
                   undoVars, toast, timers, envVars, ghost>>

BulkToggleFavoriteRefresh(i) ==
    /\ At(i, "bulkFav", "refresh")
    /\ RefreshView
    /\ toast' = ShowToast(NoAction)
    /\ timers' = ToastTimers(timers, TTL_FAVORITES)
    /\ procs' = End(i)
    /\ hist' = [ev |-> "bulkFavDone", list |-> procs[i].list, store0 |-> procs[i].aux.store0]
    /\ UNCHANGED <<store, critVars, detailVars, detailHidden, selVars, undoVars,
                   envVars, ghost>>

(* bulkDeleteWithUndo up to its first await: the snapshot for undo *)
BulkDeleteStart(k) ==
    /\ User(k)
    /\ selectMode
    /\ selectedSet # {}
    /\ SelectedOutfits # <<>>
    /\ procs' = Spawn(Proc("bulkDelete", "delete", 0, Null, SelectedOutfits, 1,
                           [NoAux EXCEPT !.store0 = store, !.pending = UndoPending]))
    /\ hist' = NoHist
    /\ UNCHANGED <<store, outfits, gridVars, critVars, detailVars, detailHidden,
                   selVars, undoVars, toast, timers, uidNext, now, pageVars, ghost>>

(* await dbDeleteOutfit(o.id); revokeThumbURL; after the last: enableSelectMode(false) *)
BulkDeleteStep(i) ==
    /\ At(i, "bulkDelete", "delete")
    /\ LET p == procs[i]
       IN  \/ /\ store' = DbDelete(store, p.list[p.idx].id)
              /\ ghost' = NotePredel(ghost, store, p.list[p.idx].id)
              /\ hist' = [ev |-> "deleted", ids |-> {p.list[p.idx].id}]
              /\ LET t == RevokeThumbURL(CurrentThumbs, p.list[p.idx].id)
                 IN  IF p.idx < Len(p.list)
                     THEN /\ procs' = [procs EXCEPT ![i].idx = p.idx + 1]
                          /\ urlCache' = t.cache
                          /\ thumbs' = t.live
                          /\ UNCHANGED <<selVars, filtered>>
                     ELSE /\ procs' = Goto(i, "refresh")
                          /\ EnableSelectMode(FALSE, t)
           \/ /\ StorageFail(i)
              /\ UNCHANGED <<selVars, gridVars, ghost>>
    /\ UNCHANGED <<outfits, critVars, detailVars, detailHidden, undoVars, toast,
                   timers, envVars>>

BulkDeleteRefresh(i) ==
    /\ At(i, "bulkDelete", "refresh")
    /\ RefreshView
    /\ toast' = ShowToast(BulkUndo(procs[i].list))
    /\ timers' = ToastTimers(timers, TTL_BULK_DELETED)
    /\ procs' = End(i)
    /\ ghost' = NoteDeletion(ghost, SeqSet(procs[i].list), procs[i].aux.pending)
    /\ hist' = [ev |-> "deleteDone", ids |-> SeqIds(procs[i].list)]
    /\ UNCHANGED <<store, critVars, detailVars, detailHidden, selVars, undoVars, envVars>>

-----------------------------------------------------------------------------
(* Filters, sort, search *)

SetCriteria(srch, srt, flt) ==
    /\ search' = srch
    /\ sort' = srt
    /\ filter' = flt
    /\ filtered' = RenderGrid(outfits, srch, srt, flt, now)
    /\ ThumbsRendered(CurrentThumbs)
    /\ hist' = [ev |-> "criteria"]
    /\ UNCHANGED <<store, outfits, detailVars, detailHidden, selVars, undoVars, toast,
                   timers, procs, uidNext, now, pageVars, ghost>>

FilterAll(k) == User(k) /\ filter # NoFilter /\ SetCriteria(search, sort, NoFilter)

FilterFav(k) ==
    User(k) /\ SetCriteria(search, sort,
                              QuickFilter(filter, ~filter.fav, filter.minRating, filter.staleDays))

Filter4plus(k) ==
    User(k) /\ SetCriteria(search, sort,
                              QuickFilter(filter, filter.fav,
                                          IF filter.minRating = MIN_RATING_4PLUS THEN 0 ELSE MIN_RATING_4PLUS,
                                          filter.staleDays))

FilterStale(k) ==
    User(k) /\ SetCriteria(search, sort,
                              QuickFilter(filter, filter.fav, filter.minRating,
                                          IF filter.staleDays = STALE_DAYS THEN 0 ELSE STALE_DAYS))

(* the tag chips show collectAllTags(state.outfits) *)
CollectAllTags(all) ==
    UNION {{all[j].tags[n] : n \in 1..Len(all[j].tags)} : j \in 1..Len(all)}

SetTagFilter(k, tag) ==
    /\ User(k)
    /\ tag \in CollectAllTags(outfits)
    /\ filter.tag # tag
    /\ SetCriteria(search, sort, [filter EXCEPT !.tag = tag])

ClearTagFilter(k) ==
    User(k) /\ filter.tag # <<>> /\ SetCriteria(search, sort, [filter EXCEPT !.tag = <<>>])

SortModes == {"date_desc", "fav_only"}

SortChange(k, s) == User(k) /\ s # sort /\ SetCriteria(search, s, filter)

Queries == {<<>>, <<"b">>}

(* the debounced input handler: state.search = el.searchInput.value *)
SearchInput(k, q) == User(k) /\ q # search /\ SetCriteria(q, sort, filter)

-----------------------------------------------------------------------------
(* Import *)

MaxEntries == 2     \* entries in an imported document
MaxImports == 2     \* imports in one session

(* one entry of data.outfits: null, or an object.  name, tags and notes are *)
(* JSON values; the numeric fields are integers, 0 also for a missing one;   *)
(* id 0 is a missing id                                                      *)
EntryOf(isNull, id, url, name, rating, fav, createdAt, tags, notes, wearCount, lastWornAt) ==
    [isNull |-> isNull, id |-> id, imageDataUrl |-> url, name |-> name, rating |-> rating,
     favorite |-> fav, createdAt |-> createdAt, tags |-> tags, notes |-> notes,
     wearCount |-> wearCount, lastWornAt |-> lastWornAt]

(* img chooses the imageDataUrl: "" when missing, "ok" a data URL that *)
(* decodes, "bad" a string fetch() rejects                              *)
Entry(isNull, id, img, name, fav) ==
    EntryOf(isNull, id,
            CASE img = "" -> NoUrl
              [] img = "bad" -> OtherUrl
              [] OTHER -> BlobToDataURL(Blob("image/jpeg", <<9>>)),
            name, 4, fav, 7, JUndef, JUndef, 1, 0)

Entries ==
    {Entry(TRUE, 0, "", JUndef, FALSE),
     Entry(FALSE, 1, "", JStr(<<"b">>), TRUE),
     Entry(FALSE, 2, "bad", JStr(<<"b">>), TRUE),
     Entry(FALSE, 2, "ok", JNum(5), TRUE)}
    \cup {Entry(FALSE, id, "ok", JStr(<<"b">>), fav) : id \in 0..NumInit, fav \in BOOLEAN}

(* a document: the shape of its top level and, when well formed, its entries *)
Docs ==
    {[shape |-> sh, outfits |-> <<>>] : sh \in {"badJson", "null", "noOutfits", "notArray"}}
    \cup {[shape |-> "ok", outfits |-> es] :
            es \in UNION {[1..n -> Entries] : n \in 1..MaxEntries}}

(* a shape check that lets every document through *)
ValidShape_acceptsAll(sh) == TRUE

(* !data || !Array.isArray(data.outfits); JSON.parse throws on text that is no JSON *)
ValidShape(sh) == sh = "ok"

(* the loop's "continue": the next entry at or after j that is processed *)
Skipped(e) == e.isNull \/ e.imageDataUrl.kind = "none"

RECURSIVE NextEntry(_, _)
NextEntry(list, j) ==
    IF j > Len(list) THEN 0
    ELSE IF Skipped(list[j]) THEN NextEntry(list, j + 1)
    ELSE j

(* an entry the import can store: it has image data that decodes and a name *)
(* safeName accepts                                                          *)
EntryThrows(e) ==
    SafeNameThrows(e.name) \/ NoStringMethods(e.tags) \/ NoStringMethods(e.notes)

ValidEntry(e) == ~Skipped(e) /\ ~FetchRejects(e.imageDataUrl) /\ ~EntryThrows(e)

ValidCount(list) == Cardinality({j \in 1..Len(list) : ValidEntry(list[j])})

(* Array.isArray(o.tags) ? parseTags(o.tags.join(",")) : parseTags(o.tags || "") *)
ImportTags(j) ==
    IF j.t = "arr" THEN ParseTags(Join(j.v))
    ELSE IF j.t = "str" THEN ParseTags(j.v)
    ELSE ParseTags(<<>>)

(* (o.notes || "").trim() *)
ImportNotes(j) == IF j.t = "str" THEN Trim(j.v) ELSE <<>>

(* the record import builds from entry o under id; Number(x || 0) of an *)
(* integer is that integer                                               *)
ImportOutfit(o, id, t) ==
    Outfit(id, SafeName(o.name), ClampRating(JNum(o.rating)), o.favorite,
           IF o.createdAt # 0 THEN o.createdAt ELSE t, DataURLToBlob(o.imageDataUrl),
           ImportTags(o.tags), ImportNotes(o.notes), o.wearCount, o.lastWornAt)

(* id = (o.id && !existing.has(o.id)) ? o.id : uid() *)
NeedsUid(o, existing) == ~(o.id # 0 /\ o.id \notin existing)

(* how many ids the loop will ask uid() for *)
RECURSIVE UidsNeeded(_, _, _)
UidsNeeded(list, j, existing) ==
    IF j > Len(list) THEN 0
    ELSE IF Skipped(list[j]) THEN UidsNeeded(list, j + 1, existing)
    ELSE IF FetchRejects(list[j].imageDataUrl) THEN 0
    ELSE LET n == IF NeedsUid(list[j], existing) THEN 1 ELSE 0
         IN  IF EntryThrows(list[j]) THEN n
             ELSE n + UidsNeeded(list, j + 1, existing \cup {list[j].id})

(* the import file input: importOutfitsFromFile up to await file.text() *)
ImportStart(k, doc) ==
    /\ User(k)
    /\ uidNext + UidsNeeded(doc.outfits, 1, SeqIds(outfits)) <= MaxUid + 1
    /\ ghost.imports < MaxImports
    /\ ghost' = [ghost EXCEPT !.imports = ghost.imports + 1]
    /\ procs' = Spawn(Proc("import", "parse", 0, Null, doc.outfits, 0,
                           [NoAux EXCEPT !.shape = doc.shape, !.store0 = store,
                                         !.outfits0 = outfits]))
    /\ hist' = NoHist
    /\ UNCHANGED <<store, outfits, gridVars, critVars, detailVars, detailHidden,
                   selVars, undoVars, toast, timers, uidNext, now, pageVars>>

(* history of an import that ended: how, and what it had written *)
ImportEnd(i, cause, written) ==
    [ev |-> "importEnd", cause |-> cause, written |-> written,
     valid |-> ValidCount(procs[i].list), store0 |-> procs[i].aux.store0,
     outfits0 |-> procs[i].aux.outfits0, shape |-> procs[i].aux.shape]

(* where the loop goes after entry j: the next awaited decode, or refresh *)
ImportAdvance(i, j, a) ==
    LET n == NextEntry(procs[i].list, j + 1)
    IN  [procs EXCEPT ![i].pc = IF n = 0 THEN "refresh" ELSE "decode",
                      ![i].idx = n, ![i].aux = a]

(* JSON.parse, the shape check, the existing-id set, and the loop up to the *)
(* first dataURLToBlob                                                       *)
ImportParse(i) ==
    /\ At(i, "import", "parse")
    /\ IF ~ValidShape(procs[i].aux.shape)
       THEN /\ procs' = End(i)
            /\ hist' = ImportEnd(i, "shape", 0)
       ELSE /\ procs' = ImportAdvance(i, 0, [procs[i].aux EXCEPT !.existing = SeqIds(outfits)])
            /\ hist' = NoHist
    /\ UNCHANGED <<store, outfits, gridVars, critVars, detailVars, detailHidden,
                   selVars, undoVars, toast, timers, envVars, ghost>>

(* after dataURLToBlob: choose the id, build the record, up to dbPutOutfit *)
ImportDecode(i) ==
    /\ At(i, "import", "decode")
    /\ LET p == procs[i]
           o == p.list[p.idx]
           fresh == NeedsUid(o, p.aux.existing)
           id == IF fresh THEN uidNext ELSE o.id
       IN  IF FetchRejects(o.imageDataUrl)
           THEN /\ procs' = End(i)
                /\ hist' = ImportEnd(i, "entry", p.aux.written)
                /\ UNCHANGED uidNext
           ELSE /\ fresh => uidNext <= MaxUid
                /\ uidNext' = IF fresh THEN uidNext + 1 ELSE uidNext
                /\ IF EntryThrows(o)
                   THEN /\ procs' = End(i)
                        /\ hist' = ImportEnd(i, "entry", p.aux.written)
                   ELSE /\ procs' = [procs EXCEPT ![i].pc = "put",
                                                  ![i].rec = ImportOutfit(o, id, now),
                                                  ![i].aux.existing = p.aux.existing \cup {id}]
                        /\ hist' = NoHist
    /\ UNCHANGED <<store, outfits, gridVars, critVars, detailVars, detailHidden,
                   selVars, undoVars, toast, timers, now, pageVars, ops, ghost>>

ImportPut(i) ==
    /\ At(i, "import", "put")
    /\ LET p == procs[i]
       IN  \/ /\ store' = DbPut(store, p.rec)
              /\ procs' = ImportAdvance(i, p.idx, [p.aux EXCEPT !.written = p.aux.written + 1])
              /\ hist' = [ev |-> "importPut", rec |-> p.rec,
                          before |-> DbGet(store, p.rec.id)]
           \/ StorageFail(i)
    /\ UNCHANGED <<outfits, gridVars, critVars, detailVars, detailHidden, selVars,
                   undoVars, toast, timers, envVars, ghost>>

ImportRefresh(i) ==
    /\ At(i, "import", "refresh")
    /\ RefreshView
    /\ toast' = ShowToast(NoAction)
    /\ timers' = ToastTimers(timers, TTL_IMPORTED)
    /\ procs' = End(i)
    /\ hist' = ImportEnd(i, "done", procs[i].aux.written)
    /\ UNCHANGED <<store, critVars, detailVars, detailHidden, selVars, undoVars,
                   envVars, ghost>>

-----------------------------------------------------------------------------
(* Export *)

(* { ...o, imageDataUrl: imgData, imageBlob: undefined } as JSON.stringify *)
(* writes it and JSON.parse reads it back                                   *)
ExportEntry(o) ==
    EntryOf(FALSE, o.id, BlobToDataURL(o.imageBlob), JStr(o.name), o.rating, o.favorite,
            o.createdAt, JArr(o.tags), JStr(o.notes), o.wearCount, o.lastWornAt)

(* the payload exportOutfits(list) downloads *)
ExportDoc(list) ==
    [shape |-> "ok", outfits |-> [j \in 1..Len(list) |-> ExportEntry(list[j])]]

(* the export button, up to await dbGetAllOutfits() *)
ExportStart(k) ==
    /\ User(k)
    /\ \A j \in Slots : procs[j].op # "export"
    /\ procs' = Spawn(Proc("export", "getAll", 0, Null, <<>>, 0, NoAux))
    /\ hist' = NoHist
    /\ UNCHANGED <<store, outfits, gridVars, critVars, detailVars, detailHidden,
                   selVars, undoVars, toast, timers, uidNext, now, pageVars, ghost>>

(* after dbGetAllOutfits(): exportOutfits encodes each image, downloads the *)
(* file and shows the toast; ghost.file is the downloaded document          *)
ExportWrite(i) ==
    /\ At(i, "export", "getAll")
    /\ ghost' = [ghost EXCEPT !.file = ExportDoc(DbGetAll(store)),
                              !.exported = DbGetAll(store)]
    /\ toast' = ShowToast(NoAction)
    /\ timers' = ToastTimers(timers, TTL_EXPORTED)
    /\ procs' = End(i)
    /\ hist' = [ev |-> "exported"]
    /\ UNCHANGED <<store, outfits, gridVars, critVars, detailVars, detailHidden,
                   selVars, undoVars, envVars>>

(* the import file input given the file the last export downloaded *)
ImportBackup(k) == ghost.file # Null /\ ImportStart(k, ghost.file)

-----------------------------------------------------------------------------
(* Create *)

(* confirmCreateSave up to await fileToSafeJpegBlob: the form is read *)
CreatePictureStart(k, fav, file) ==
    /\ User(k)
    /\ revision = "full"
    /\ \A j \in Slots : procs[j].op # "create"
    /\ uidNext <= MaxUid
    /\ procs' = Spawn(Proc("create", "convert", 0,
                           Outfit(0, SafeName(JStr(<<"a", " ">>)), ClampRating(JNum(0)), fav, 0,
                                  Blob("image/jpeg", <<8>>), <<>>, <<>>, 0, 0),
                           <<>>, 0, [NoAux EXCEPT !.store0 = store, !.file = file]))
    /\ hist' = NoHist
    /\ UNCHANGED <<store, outfits, gridVars, critVars, detailVars, detailHidden,
                   selVars, undoVars, toast, timers, uidNext, now, pageVars, ghost>>

CreateStart(k, fav) == CreatePictureStart(k, fav, Picture)

(* after the image conversion: id: uid(), createdAt: Date.now().  The await *)
(* is inside the try: a rejection is caught, with the error toast and the   *)
(* alert                                                                    *)
CreateConvert(i) ==
    LET out == FileToSafeJpegBlob(procs[i].aux.file, ADD_MAX_SIDE)
    IN  /\ At(i, "create", "convert")
        /\ uidNext <= MaxUid
        /\ IF out = Rejected
           THEN /\ procs' = End(i)
                /\ toast' = ShowToast(NoAction)
                /\ timers' = ToastTimers(timers, TTL_SAVE_ERROR)
                /\ UNCHANGED uidNext
           ELSE /\ procs' = [procs EXCEPT ![i].pc = "add",
                                          ![i].rec = [procs[i].rec EXCEPT
                                                         !.id = uidNext, !.createdAt = now,
                                                         !.imageBlob = StoredBlob(out)]]
                /\ uidNext' = uidNext + 1
                /\ UNCHANGED <<toast, timers>>
        /\ hist' = [ev |-> "convert", file |-> procs[i].aux.file, out |-> out]
        /\ UNCHANGED <<store, outfits, gridVars, critVars, detailVars, detailHidden,
                       selVars, undoVars, now, pageVars, ops, ghost>>

(* after dbAddOutfit; a failure is caught: the error toast and the alert *)
CreateAdd(i) ==
    /\ At(i, "create", "add")
    /\ \/ /\ DbGet(store, procs[i].rec.id) = Null
          /\ store' = store \cup {procs[i].rec}
          /\ procs' = Goto(i, "refresh")
          /\ hist' = NoHist
          /\ UNCHANGED <<toast, timers>>
       \/ /\ StorageFail(i)
          /\ toast' = ShowToast(NoAction)
          /\ timers' = ToastTimers(timers, TTL_SAVE_ERROR)
    /\ UNCHANGED <<outfits, gridVars, critVars, detailVars, detailHidden, selVars,
                   undoVars, envVars, ghost>>

CreateRefresh(i) ==
    /\ At(i, "create", "refresh")
    /\ RefreshView
    /\ toast' = ShowToast(NoAction)
    /\ timers' = ToastTimers(timers, TTL_SAVED)
    /\ procs' = End(i)
    /\ hist' = NoHist
    /\ UNCHANGED <<store, critVars, detailVars, detailHidden, selVars, undoVars,
                   envVars, ghost>>

-----------------------------------------------------------------------------
(* The next-state relations.  In each the user lets an operation finish      *)
(* before starting the next (UserMay(1)); the store may fail any write.      *)

TimerStep == Tick \/ FireToastTtl \/ FireToastHide \/ FireModalHide \/ FireUndoTimer

DetailStep(i) ==
    \/ OpenDetailGet(i)
    \/ SaveDetailGet(i) \/ SaveDetailPut(i) \/ SaveDetailRefresh(i)

DeleteStep(i) ==
    \/ DeleteDetailGet(i) \/ DeleteDetailDelete(i) \/ DeleteDetailRefresh(i)
    \/ UndoSinglePut(i) \/ UndoBulkPut(i) \/ UndoRefresh(i)
    \/ BulkDeleteStep(i) \/ BulkDeleteRefresh(i)

DetailUser(k) ==
    \/ \E id \in 1..MaxUid : OpenDetailStart(k, id)
    \/ CloseDetailModal(k)
    \/ SaveDetailStart(k)

DeleteUser(k) ==
    \/ DeleteDetailStart(k)
    \/ ToastActionClick(k)
    \/ BulkDeleteStart(k)

SelectUser(k) ==
    \/ ToggleSelectMode(k)
    \/ \E id \in 1..MaxUid : ToggleSelection(k, id)

(* delete and undo, with the timers running freely between the user's actions *)
NextUndo ==
    \/ \E i \in Slots : InitialRefresh(i) \/ DetailStep(i) \/ DeleteStep(i)
    \/ TimerStep
    \/ DetailUser(1) \/ DeleteUser(1) \/ SelectUser(1)

SpecUndo == Init /\ [][NextUndo]_vars

BackupStep(i) ==
    \/ ImportParse(i) \/ ImportDecode(i) \/ ImportPut(i) \/ ImportRefresh(i)
    \/ CreateConvert(i) \/ CreateAdd(i) \/ CreateRefresh(i)

BackupUser(k) ==
    \/ \E doc \in Docs : ImportStart(k, doc)
    \/ \E fav \in BOOLEAN : CreateStart(k, fav)

(* create and import, with the clock standing still *)
NextImport ==
    \/ \E i \in Slots : InitialRefresh(i) \/ BackupStep(i)
    \/ BackupUser(1)

SpecImport == Init /\ [][NextImport]_vars

-----------------------------------------------------------------------------
(* Add from file, as the two earlier revisions have it *)

NEW_OUTFIT == <<"N","u","o","v","o"," ","o","u","t","f","i","t">>

(* file.name.replace(/\.[^/.]+$/, ""): the last dot and what follows it, when *)
(* at least one character follows and none of them is a slash                *)
StripExtension(s) ==
    LET dots == {i \in 1..(Len(s) - 1) :
                    /\ s[i] = "."
                    /\ \A j \in (i + 1)..Len(s) : s[j] # "." /\ s[j] # "/"}
    IN  IF dots = {} THEN s
        ELSE SubSeq(s, 1, (CHOOSE i \in dots : TRUE) - 1)

(* file.name ? file.name.replace(...) : "Nuovo outfit" *)
FileOutfitName(fileName) ==
    IF fileName # <<>> THEN StripExtension(fileName) ELSE NEW_OUTFIT

FileNames ==
    {<<>>, <<"a">>, <<"a", ".", "j">>, <<"a", ".", "b", ".", "j">>, <<".", "j">>,
     <<" ", ".", "j">>, <<"a", ".">>}

(* the file input's change handler for one file, up to await fileToSafeJpegBlob *)
AddPictureStart(k, fileName, file) ==
    /\ User(k)
    /\ revision # "full"
    /\ \A j \in Slots : procs[j].op # "addFile"
    /\ uidNext <= MaxUid
    /\ procs' = Spawn(Proc("addFile", "convert", 0,
                           Outfit(0, FileOutfitName(fileName), 0, FALSE, 0,
                                  Blob("image/jpeg", <<8>>), <<>>, <<>>, 0, 0),
                           <<>>, 0, [NoAux EXCEPT !.store0 = store, !.file = file]))
    /\ hist' = NoHist
    /\ UNCHANGED <<store, outfits, gridVars, critVars, detailVars, detailHidden,
                   selVars, undoVars, toast, timers, uidNext, now, pageVars, ghost>>

AddFileStart(k, fileName) == AddPictureStart(k, fileName, Picture)

(* after the conversion: id: uid(), createdAt: Date.now(), up to dbAddOutfit. *)
(* The await is outside the try: a rejection ends addOutfitFromFile and the   *)
(* change handler that awaits it, with nothing stored and nothing shown       *)
AddFileConvert(i) ==
    LET out == FileToSafeJpegBlob(procs[i].aux.file, ADD_MAX_SIDE)
    IN  /\ At(i, "addFile", "convert")
        /\ uidNext <= MaxUid
        /\ IF out = Rejected
           THEN procs' = End(i) /\ UNCHANGED uidNext
           ELSE /\ procs' = [procs EXCEPT ![i].pc = "add",
                                          ![i].rec = [procs[i].rec EXCEPT
                                                         !.id = uidNext, !.createdAt = now,
                                                         !.imageBlob = StoredBlob(out)]]
                /\ uidNext' = uidNext + 1
        /\ hist' = [ev |-> "convert", file |-> procs[i].aux.file, out |-> out]
        /\ UNCHANGED <<store, outfits, gridVars, critVars, detailVars, detailHidden,
                       selVars, undoVars, toast, timers, now, pageVars, ops, ghost>>

(* after dbAddOutfit; a failure is caught and alerted *)
AddFileAdd(i) ==
    /\ At(i, "addFile", "add")
    /\ \/ /\ DbGet(store, procs[i].rec.id) = Null
          /\ store' = store \cup {procs[i].rec}
          /\ procs' = Goto(i, "refresh")
          /\ hist' = [ev |-> "addFile", rec |-> procs[i].rec]
       \/ StorageFail(i)
    /\ UNCHANGED <<outfits, gridVars, critVars, detailVars, detailHidden, selVars,
                   undoVars, toast, timers, envVars, ghost>>

AddFileRefresh(i) ==
    /\ At(i, "addFile", "refresh")
    /\ RefreshView
    /\ procs' = End(i)
    /\ hist' = NoHist
    /\ UNCHANGED <<store, critVars, detailVars, detailHidden, selVars, undoVars,
                   toast, timers, envVars, ghost>>

NextAddFile ==
    \/ \E i \in Slots :
          InitialRefresh(i) \/ AddFileConvert(i) \/ AddFileAdd(i) \/ AddFileRefresh(i)
    \/ \E f \in FileNames : AddFileStart(1, f)

(* an earlier revision of the script over the database it has created *)
InitEarly ==
    /\ store \in InitStores
    /\ InitView
    /\ revision \in {"baseline", "middle"}
    /\ schema = OpenDB(NoDB, revision)

SpecAddFile == InitEarly /\ [][NextAddFile]_vars

(* documents of one entry that differs from a plain one in one field: what *)
(* a document may hold where the import expects a name, a rating, tags,    *)
(* notes, a wear count or a time                                           *)
PlainEntry ==
    EntryOf(FALSE, 0, BlobToDataURL(Blob("image/jpeg", <<9>>)), JStr(<<"b">>), 4, TRUE, 7,
            JArr(<<<<"x">>>>), JStr(<<"n">>), 1, 0)

ManyTags == [n \in 1..(MAX_TAGS + 1) |-> [j \in 1..n |-> "x"]]

DataEntries ==
    {[PlainEntry EXCEPT !.name = v] : v \in {JUndef, JStr(<<" ">>), JStr(<<" ", "A", " ">>)}}
    \cup {[PlainEntry EXCEPT !.rating = v] : v \in {-1, 0, 7}}
    \cup {[PlainEntry EXCEPT !.tags = v] :
            v \in {JUndef, JNum(0), JStr(<<"A", ",", " ", "a", ",", ",", "b", " ">>),
                   JArr(<<<<"B">>, <<" ", "b">>, <<"a", ",", "x">>>>), JArr(ManyTags)}}
    \cup {[PlainEntry EXCEPT !.notes = v] : v \in {JUndef, JStr(<<" ", "n", " ">>)}}
    \cup {[PlainEntry EXCEPT !.wearCount = v] : v \in {-1, 0, MaxWear}}
    \cup {[PlainEntry EXCEPT !.lastWornAt = v] : v \in {-DAY, NOW0}}
    \cup {[PlainEntry EXCEPT !.createdAt = v] : v \in {0, -1}}

DataDocs == {[shape |-> "ok", outfits |-> <<e>>] : e \in DataEntries}

(* imports of documents with unexpected field values *)
NextImportData ==
    \/ \E i \in Slots :
          \/ InitialRefresh(i)
          \/ ImportParse(i) \/ ImportDecode(i) \/ ImportPut(i) \/ ImportRefresh(i)
    \/ \E doc \in DataDocs : ImportStart(1, doc)

SpecImportData == Init /\ [][NextImportData]_vars

(* the same imports with the user choosing a last-worn sort in between *)
NextSortData ==
    \/ NextImportData
    \/ \E srt \in {"date_desc", "lastworn_asc", "lastworn_desc"} : SortChange(1, srt)

SpecSortData == Init /\ [][NextSortData]_vars

(* records as the write paths leave them: a trimmed non-empty name, a rating *)
(* in 0..5, parsed tags, trimmed notes, createdAt a time of creation         *)
ValidBlobs ==
    {Blob(t, b) : t \in {"image/jpeg", ""},
                  b \in {<<255>>, <<1, 2>>, <<77, 255, 0>>, <<1, 2, 3, 200>>}}

ValidRecords ==
    {Outfit(id, name, rating, fav, createdAt, blob, tags, notes, wear[1], wear[2]) :
        id \in {1, MaxUid}, name \in {<<"a", " ", "B">>, PLACEHOLDER}, rating \in {0, 5},
        fav \in BOOLEAN, createdAt \in {1, NOW0}, blob \in ValidBlobs,
        tags \in {<<>>, <<<<"x">>>>, <<<<"b", " ", "x">>, <<"a">>>>},
        notes \in {<<>>, <<"N", ",", " ", "n">>}, wear \in {<<0, 0>>, <<MaxWear, NOW0>>}}

(* the page loaded over a store that holds one valid record *)
InitBackup == store \in {{r} : r \in ValidRecords} /\ InitView /\ InitPage

(* a page load of revision rev over the database db: openDB, the state as *)
(* the script declares it, init() calling refresh(); the document's       *)
(* object URLs are gone with the old document                             *)
PageLoaded(rev, db) ==
    /\ revision' = rev
    /\ schema' = OpenDB(db, rev)
    /\ outfits' = <<>>
    /\ filtered' = <<>>
    /\ search' = <<>>
    /\ sort' = "date_desc"
    /\ filter' = NoFilter
    /\ selectedId' = 0
    /\ selectMode' = FALSE
    /\ selectedSet' = {}
    /\ lastDeleted' = Null
    /\ undoTimer' = "null"
    /\ toast' = [hidden |-> TRUE, actionHidden |-> TRUE, onclick |-> NoAction,
                 clicked |-> FALSE]
    /\ timers' = {}
    /\ detailHidden' = TRUE
    /\ procs' = [i \in Slots |->
                   IF i = 1 THEN Proc("refresh", "getAll", 0, Null, <<>>, 0, NoAux) ELSE Idle]
    /\ urlCache' = NoCache
    /\ thumbs' = {}
    /\ selectedURL' = Null
    /\ detailURLs' = {}

(* the page loaded in a profile without a database: openDB creates the store *)
(* empty; the downloaded file is still there                                 *)
FreshProfile ==
    /\ ghost.file # Null
    /\ InFlight = 0
    /\ store' = {}
    /\ PageLoaded("full", NoDB)
    /\ hist' = [ev |-> "freshProfile"]
    /\ UNCHANGED <<uidNext, now, ops, ghost>>

(* the page reloaded with revision rev of the script, over the same database *)
PageLoad(k, rev) ==
    /\ User(k)
    /\ InFlight = 0
    /\ store' = store
    /\ PageLoaded(rev, schema)
    /\ hist' = [ev |-> "openDB", rev |-> rev, store0 |-> store, schema0 |-> schema]
    /\ UNCHANGED <<uidNext, now, ghost>>

(* databases a page load may find: none, or one of an older version whose *)
(* store has some of the indexes                                           *)
PreExisting ==
    {NoDB, [version |-> 1, hasStore |-> FALSE, indexes |-> {}]}
    \cup {[version |-> 1, hasStore |-> TRUE, indexes |-> ix] :
            ix \in {{}, {"createdAt"}, BaselineIndexes, {"wearCount", "name"}}}

InitOpenDB ==
    /\ InitView
    /\ revision \in Revisions
    /\ \E db \in PreExisting :
          /\ schema = OpenDB(db, revision)
          /\ store \in InitStores
          /\ ~db.hasStore => store = {}

(* page loads of the three revisions over one database, the earlier *)
(* revisions adding records                                          *)
NextOpenDB ==
    \/ \E i \in Slots :
          InitialRefresh(i) \/ AddFileConvert(i) \/ AddFileAdd(i) \/ AddFileRefresh(i)
    \/ \E f \in {<<"a", ".", "j">>} : AddFileStart(1, f)
    \/ \E rev \in Revisions : PageLoad(1, rev)

SpecOpenDB == InitOpenDB /\ [][NextOpenDB]_vars

(* export, a fresh profile, and the import of the exported file *)
NextBackup ==
    \/ \E i \in Slots :
          \/ InitialRefresh(i) \/ ExportWrite(i)
          \/ ImportParse(i) \/ ImportDecode(i) \/ ImportPut(i) \/ ImportRefresh(i)
    \/ ExportStart(1)
    \/ ImportBackup(1)
    \/ FreshProfile

SpecBackup == InitBackup /\ [][NextBackup]_vars

BulkStep(i) ==
    \/ BulkToggleFavoritePut(i) \/ BulkToggleFavoriteRefresh(i)
    \/ BulkDeleteStep(i) \/ BulkDeleteRefresh(i)

BulkUser(k) ==
    \/ BulkToggleFavoriteStart(k)
    \/ BulkDeleteStart(k)

CriteriaUser(k) ==
    \/ FilterAll(k) \/ FilterFav(k) \/ Filter4plus(k) \/ FilterStale(k)
    \/ \E tag \in {<<"x">>} : SetTagFilter(k, tag)
    \/ ClearTagFilter(k)
    \/ \E s \in SortModes : SortChange(k, s)
    \/ \E q \in Queries : SearchInput(k, q)

WearStep(i) == WearTodayGet(i) \/ WearTodayPut(i) \/ WearTodayRefresh(i)

(* selection, bulk actions and the view's criteria, with the clock standing still *)
NextSelect ==
    \/ \E i \in Slots : InitialRefresh(i) \/ DetailStep(i) \/ WearStep(i) \/ BulkStep(i)
    \/ DetailUser(1) \/ WearTodayStart(1) \/ SelectUser(1) \/ BulkUser(1) \/ CriteriaUser(1)

SpecSelect == Init /\ [][NextSelect]_vars

(* the detail modal's and the bulk bar's writes, the user not waiting for a *)
(* handler to finish before the next click                                  *)
NextOverlap ==
    \/ \E i \in Slots :
          \/ InitialRefresh(i) \/ DetailStep(i) \/ WearStep(i)
          \/ BulkToggleFavoritePut(i) \/ BulkToggleFavoriteRefresh(i)
    \/ DetailUser(MaxInFlight) \/ WearTodayStart(MaxInFlight) \/ SelectUser(MaxInFlight)
    \/ BulkToggleFavoriteStart(MaxInFlight)

SpecOverlap == Init /\ [][NextOverlap]_vars

(* wearToday alone, the user not waiting for one to finish before the next *)
NextWear ==
    \/ \E i \in Slots : InitialRefresh(i) \/ OpenDetailGet(i) \/ WearStep(i)
    \/ \E id \in 1..MaxUid : OpenDetailStart(MaxInFlight, id)
    \/ WearTodayStart(MaxInFlight)

SpecWear == Init /\ [][NextWear]_vars

(* the add operations of the three revisions over pictures that the fast   *)
(* decode, both decodes or the encoder fail on                              *)
PickedFiles ==
    {ImageFile(2000, 800, d[1], d[2], d[3]) :
        d \in {<<FALSE, TRUE, TRUE>>, <<FALSE, FALSE, TRUE>>, <<TRUE, TRUE, FALSE>>}}

NextAddPicture ==
    \/ \E i \in Slots :
          \/ InitialRefresh(i)
          \/ AddFileConvert(i) \/ AddFileAdd(i) \/ AddFileRefresh(i)
          \/ CreateConvert(i) \/ CreateAdd(i) \/ CreateRefresh(i)
    \/ \E file \in PickedFiles :
          \/ AddPictureStart(1, <<"a", ".", "j">>, file)
          \/ \E fav \in BOOLEAN : CreatePictureStart(1, fav, file)

InitAnyRevision ==
    /\ store \in InitStores
    /\ InitView
    /\ revision \in Revisions
    /\ schema = OpenDB(NoDB, revision)

SpecAddPicture == InitAnyRevision /\ [][NextAddPicture]_vars

(* the normalizer applied to pictures of many sizes: squares, wide and tall *)
(* ones, sides below, at and above the bound, sides whose scaled length is  *)
(* an exact half.  The functions keep no state: a behaviour is one call    *)
Sides == {1, 2, 47, 94, 145, 640, 800, 900, 1200, 1600, 1601, 2000, 3712}

MaxSides == {1, 3, 1200, 1600}

ImageFiles ==
    {ImageFile(w, h, d[1], d[2], d[3]) :
        w \in Sides, h \in Sides,
        d \in {<<TRUE, TRUE, TRUE>>, <<FALSE, TRUE, TRUE>>, <<FALSE, FALSE, TRUE>>,
               <<TRUE, TRUE, FALSE>>}}

ResizeCall(file, maxSide) ==
    /\ hist = NoHist
    /\ hist' = [ev |-> "resize", file |-> file, maxSide |-> maxSide,
                out |-> FileToSafeJpegBlob(file, maxSide)]
    /\ UNCHANGED <<store, outfits, gridVars, critVars, detailVars, detailHidden, selVars,
                   undoVars, toast, timers, procs, envVars, ghost>>

CropCall(file, maxSide) ==
    /\ hist = NoHist
    /\ hist' = [ev |-> "crop", file |-> file, maxSide |-> maxSide,
                out |-> CropCenterSquareToJpeg(file, maxSide)]
    /\ UNCHANGED <<store, outfits, gridVars, critVars, detailVars, detailHidden, selVars,
                   undoVars, toast, timers, procs, envVars, ghost>>

NextNormalize ==
    \E file \in ImageFiles, maxSide \in MaxSides :
        ResizeCall(file, maxSide) \/ CropCall(file, maxSide)

InitNormalize == store = {} /\ InitView /\ InitPage

SpecNormalize == InitNormalize /\ [][NextNormalize]_vars

(* clampRating applied to a value, and once more to its own result *)
RatingInputs ==
    {JFrac(v) : v \in -70..70} \cup {JNum(n) : n \in {-1000, -1, 0, 3, 5, 6, 1000}}
    \cup {JStr(x) : x \in {<<>>, <<" ">>, <<"4">>, <<" ", "3", " ">>, <<"4", ".", "5">>,
                            <<"-", "2">>, <<"1", "2">>, <<"a", "b", "c">>, <<"4", "a">>,
                            <<"2", ".", "4", ".", "1">>, <<"-">>, <<".", "5">>, <<".">>}}
    \cup {JInf, JNaN, JNull, JUndef}

ClampRatingCall(n) ==
    /\ hist.ev # "clampRating"
    /\ hist' = [ev |-> "clampRating", n |-> n, r |-> ClampRating(n)]
    /\ UNCHANGED <<store, outfits, gridVars, critVars, detailVars, detailHidden, selVars,
                   undoVars, toast, timers, procs, envVars, ghost>>

ClampRatingAgain ==
    /\ hist.ev = "clampRating"
    /\ hist' = [ev |-> "clampRatingAgain", n |-> hist.n, first |-> hist.r,
                r |-> ClampRating(JNum(hist.r))]
    /\ UNCHANGED <<store, outfits, gridVars, critVars, detailVars, detailHidden, selVars,
                   undoVars, toast, timers, procs, envVars, ghost>>

NextRating ==
    \/ \E n \in RatingInputs : ClampRatingCall(n)
    \/ ClampRatingAgain

SpecRating == Init /\ [][NextRating]_vars

(* the view over records that differ in what the criteria look at: favorite, *)
(* rating, the time last worn, a tag that is the filter's tag or only        *)
(* contains it, a name or notes that hold the query                          *)
ViewRecord(id, fav, lastWornAt) ==
    IF id = 1
    THEN Outfit(1, <<"a">>, 5, fav, 1, Blob("image/jpeg", <<1>>), <<<<"x">>>>, <<"A", "b">>,
                IF lastWornAt = 0 THEN 0 ELSE 1, lastWornAt)
    ELSE Outfit(id, <<"B">>, 3, fav, id, Blob("image/jpeg", <<id>>), <<<<"x", "b">>>>, <<>>,
                IF lastWornAt = 0 THEN 0 ELSE 2, lastWornAt)

ViewStores ==
    {S \in SUBSET {ViewRecord(id, fav, lw) :
                      id \in 1..NumInit, fav \in BOOLEAN,
                      lw \in {0, NOW0 - (STALE_DAYS + 1) * DAY, NOW0 - DAY}} :
        \A a, b \in S : a.id = b.id => a = b}

InitViewStores == store \in ViewStores /\ InitView /\ InitPage

ViewSortModes == {"date_desc", "fav_only", "name_asc", "lastworn_asc", "lastworn_desc"}

ViewQueries == {<<>>, <<"b">>, <<" ", "B">>}

ViewUser(k) ==
    \/ FilterAll(k) \/ FilterFav(k) \/ Filter4plus(k) \/ FilterStale(k)
    \/ \E tag \in {<<"x">>} : SetTagFilter(k, tag)
    \/ ClearTagFilter(k)
    \/ \E s \in ViewSortModes : SortChange(k, s)
    \/ \E q \in ViewQueries : SearchInput(k, q)

NextView ==
    \/ \E i \in Slots : InitialRefresh(i)
    \/ ViewUser(1)

SpecView == InitViewStores /\ [][NextView]_vars

-----------------------------------------------------------------------------
(* Claims on delete and undo *)

(* C1: once an undo has run to its end, the store again holds every record  *)
(* of the deletion it was offered for, each with the value the store had    *)
(* for it just before the delete; and the writes of a second invocation of  *)
(* the same undo leave the store as it is.                                  *)
C1_UndoRestoresDeleted ==
    /\ hist.ev = "undoDone" =>
           \A d \in ghost.lastBatch : DbGet(ghost.predel, d.id) \in store
    /\ hist.ev = "undoPut" /\ hist.again => ~hist.changed

(* C2: the only records an undo invocation brings back are records of the   *)
(* most recent deletion: whatever else it writes is in the store already.   *)
C2_SingleUndoSlot ==
    hist.ev = "undoClick" => \A r \in hist.recs : r \in ghost.lastBatch \/ r \in store

(* an undo is invoked after a deletion that superseded a pending one *)
C2_Witness ==
    hist.ev = "undoClick" /\ ghost.superseded /\ hist.recs # {} /\ hist.recs \cap store = {}

(* C3: no undo invocation puts back a record whose undo window has expired *)
C3_ExpiredIsTerminal ==
    hist.ev = "undoClick" => hist.recs \cap ghost.expired = {}

(* an undo is invoked while an earlier deletion's window has expired *)
C3_Witness ==
    hist.ev = "undoClick" /\ hist.recs # {} /\ ghost.expired # {}

-----------------------------------------------------------------------------
(* Claims on import *)

(* C4: a record import writes never replaces a different record the store  *)
(* held under its id just before the write                                  *)
C4_ImportNeverOverwrites ==
    hist.ev = "importPut" => hist.before = Null \/ hist.before = hist.rec

(* C5: an import of a well-formed document never ends on an entry: it skips *)
(* the bad ones and ends having written every entry that can be stored      *)
C5_BadEntrySkipped ==
    hist.ev = "importEnd" /\ hist.shape = "ok" =>
        hist.cause = "done" /\ hist.written = hist.valid

(* the top-level shapes the import refuses *)
Malformed == {"badJson", "null", "noOutfits", "notArray"}

(* C6: an import of a malformed document ends at the shape check, having    *)
(* written nothing: the store and state.outfits are as they were when it    *)
(* started                                                                  *)
C6_MalformedRejected ==
    hist.ev = "importEnd" /\ hist.shape \in Malformed =>
        /\ hist.cause = "shape"
        /\ hist.written = 0
        /\ store = hist.store0
        /\ outfits = hist.outfits0

(* a malformed document is refused by an application that holds records *)
C6_Witness ==
    /\ hist.ev = "importEnd" /\ hist.shape \in Malformed
    /\ store # {} /\ outfits # <<>>

(* C8: whenever no operation is in flight, state.outfits holds exactly the  *)
(* records of the store                                                     *)
C8_SnapshotIsStore ==
    InFlight = 0 => SeqSet(outfits) = store /\ Len(outfits) = Cardinality(store)

-----------------------------------------------------------------------------
(* Claims on store failures, selection and bulk actions *)

(* C7: an operation that a failed store write ends leaves the store as it   *)
(* was when the operation started                                           *)
C7_NoPartialState ==
    hist.ev = "storageFail" => store = hist.store0

(* C9: in select mode, after a change of the search text, the sort mode, a  *)
(* quick filter or the tag filter, and after a bulkToggleFavorite, every    *)
(* selected id is the id of a record of state.filtered                      *)
C9_SelectionVisible ==
    selectMode /\ hist.ev \in {"criteria", "bulkFavDone"} =>
        selectedSet \subseteq SeqIds(filtered)

(* C10: when bulkToggleFavorite has run to its end, every record it read as *)
(* selected has favorite = FALSE if all of them were favorites when it read *)
(* them and TRUE otherwise, and every other record of the store is as it    *)
(* was when the call started                                                *)
C10_BulkFavoriteAllOrNothing ==
    hist.ev = "bulkFavDone" =>
        LET ids == SeqIds(hist.list)
            wereAllFav == \A j \in 1..Len(hist.list) : hist.list[j].favorite
        IN  /\ \A id \in ids : DbGet(store, id) # Null
                                /\ DbGet(store, id).favorite = ~wereAllFav
            /\ {r \in store : r.id \notin ids} = {r \in hist.store0 : r.id \notin ids}

(* a bulk toggle has ended with a favorite record outside its selection *)
C10_Witness ==
    /\ hist.ev = "bulkFavDone"
    /\ hist.list # <<>>
    /\ \E r \in store : r.id \notin SeqIds(hist.list) /\ r.favorite

(* C11: exporting one valid record and importing the file into an empty   *)
(* store and snapshot leaves exactly one record, with the same id, name,   *)
(* rating, favorite, createdAt, tags, notes, wearCount and lastWornAt and  *)
(* an image of the same bytes                                              *)
SameData(a, b) ==
    /\ a.id = b.id /\ a.name = b.name /\ a.rating = b.rating /\ a.favorite = b.favorite
    /\ a.createdAt = b.createdAt /\ a.tags = b.tags /\ a.notes = b.notes
    /\ a.wearCount = b.wearCount /\ a.lastWornAt = b.lastWornAt
    /\ a.imageBlob.bytes = b.imageBlob.bytes

RoundTripDone ==
    /\ hist.ev = "importEnd" /\ hist.cause = "done"
    /\ hist.store0 = {} /\ hist.outfits0 = <<>>
    /\ Len(ghost.exported) = 1

C11_RoundTrip ==
    RoundTripDone => \E r \in store : store = {r} /\ SameData(r, ghost.exported[1])

C11_Witness ==
    /\ RoundTripDone
    /\ Len(ghost.exported[1].tags) = 2
    /\ Len(ghost.exported[1].imageBlob.bytes) = 2
    /\ store # {}

(* C12: every record the import writes has a non-empty name, an integer   *)
(* rating in 0..5, tags that are lowercase, without duplicates and at most *)
(* 20, trimmed notes, a wearCount and a lastWornAt that are not negative,  *)
(* whatever the document holds                                             *)
ValidText(r) ==
    /\ r.name # <<>> /\ r.name = Trim(r.name)
    /\ r.rating \in 0..5
    /\ Len(r.tags) <= MAX_TAGS
    /\ \A a \in 1..Len(r.tags) :
          /\ r.tags[a] = ToLowerCase(r.tags[a])
          /\ \A b \in 1..Len(r.tags) : r.tags[a] = r.tags[b] => a = b
    /\ r.notes = Trim(r.notes)

ValidCounters(r) == r.wearCount >= 0 /\ r.lastWornAt >= 0

C12_ImportWritesValid ==
    hist.ev = "importPut" => ValidText(hist.rec) /\ ValidCounters(hist.rec)

(* the part of C12 that holds: name, rating, tags and notes *)
ImportWritesValidText == hist.ev = "importPut" => ValidText(hist.rec)

(* C13: a record's name is never stored empty, in every revision and on    *)
(* every write path, also when the uploaded file's name is only an         *)
(* extension or whitespace                                                 *)
C13_NameNeverEmpty == \A r \in store : r.name # <<>>

(* C14: every write by saveDetail or bulkToggleFavorite leaves wearCount,  *)
(* lastWornAt, createdAt, id and imageBlob as the store held them          *)
(* immediately before the write, also when the write overlaps a wearToday  *)
(* on the same record                                                      *)
SameCounters(a, b) ==
    /\ a.wearCount = b.wearCount /\ a.lastWornAt = b.lastWornAt
    /\ a.createdAt = b.createdAt /\ a.id = b.id /\ a.imageBlob = b.imageBlob

C14_WritesKeepCounters ==
    hist.ev \in {"savePut", "bulkFavPut"} /\ hist.before # Null
        => SameCounters(hist.rec, hist.before)

(* C15: after openDB of the full-upgrade revision, against any store that *)
(* was there, also one an earlier revision created at the same DB_VERSION, *)
(* the store has all six indexes and its records are unchanged, and        *)
(* opening again changes nothing                                           *)
C15_OpenDBAdditive ==
    hist.ev = "openDB" /\ hist.rev = "full"
        => /\ schema.indexes = FullIndexes
           /\ store = hist.store0
           /\ OpenDB(schema, "full") = schema

(* C16: in the revisions with a cache there is at most one live thumbnail *)
(* URL per record id, urlCache maps each id to exactly its live URL, and   *)
(* getThumbURL returns the cached URL or else creates and caches a new one *)
CachedURLs == {urlCache[id] : id \in DOMAIN urlCache}

C16_OneThumbPerId ==
    /\ \A u, v \in thumbs : u.id = v.id => u = v
    /\ CachedURLs = thumbs
    /\ \A id \in DOMAIN urlCache : urlCache[id].id = id
    /\ \A j \in 1..Len(outfits) :
          LET t == GetThumbURL(CurrentThumbs, outfits[j])
              id == outfits[j].id
          IN  IF id \in DOMAIN urlCache
              THEN t = CurrentThumbs
              ELSE /\ t.cache[id] \notin thumbs
                   /\ t.live = thumbs \cup {t.cache[id]}
                   /\ DOMAIN t.cache = DOMAIN urlCache \cup {id}

C16_Witness ==
    /\ hist.ev = "criteria"
    /\ Cardinality(thumbs) = 1
    /\ Len(outfits) = 2

(* C17: the ids in urlCache are ids of state.filtered, the live thumbnail *)
(* URLs are no more than the visible records, and when a delete has ended *)
(* no live URL is left for a record it deleted                            *)
C17_ThumbsFollowGrid ==
    /\ DOMAIN urlCache \subseteq SeqIds(filtered)
    /\ Cardinality(thumbs) <= Len(filtered)
    /\ hist.ev = "deleteDone" => \A u \in thumbs : u.id \notin hist.ids

C17_Witness ==
    /\ hist.ev = "deleteDone"
    /\ thumbs # {}
    /\ hist.ids # {}

(* C18: in the baseline revision, which has no cache, the grid's URLs are *)
(* released when their record is no longer visible, and the live ones are *)
(* no more than the visible records                                       *)
C18_BaselineGridURLs ==
    revision = "baseline"
        => /\ \A u \in thumbs : u.id \in SeqIds(filtered)
           /\ Cardinality(thumbs) <= Len(filtered)

(* C19: at most one URL of the detail view is live at any time, the one    *)
(* state.selectedURL holds, and none is live after closeDetailModal, also  *)
(* when two openDetail calls overlap or one ends after a closeDetailModal  *)
C19_OneDetailURL ==
    /\ Cardinality(detailURLs) <= 1
    /\ detailURLs = IF selectedURL = Null THEN {} ELSE {selectedURL}
    /\ hist.ev = "closeDetail" => detailURLs = {}

C19_Witness ==
    /\ hist.ev = "openDetail"
    /\ hist.overlap
    /\ selectedURL # Null
    /\ \E i \in Slots : procs[i].op = "openDetail"

(* C20, as the claim has it: applyFiltersAndSort is a function of        *)
(* (outfits, search, sort, filter) alone, also with the stale filter on: *)
(* the list a criteria change has just rendered is the list the same     *)
(* four values give at another time of the clock                         *)
LaterClock == NOW0 + (STALE_DAYS + 1) * DAY

C20_FilterIsPure ==
    hist.ev = "criteria"
        => ApplyFiltersAndSort(outfits, search, sort, filter, LaterClock) = filtered

(* C20, amended: with the stale filter off (staleDays = 0) the list is a *)
(* function of (outfits, search, sort, filter) alone: it is the same at  *)
(* another time of the clock; with staleDays > 0 it depends on Date.now() *)
C20_PureWhenNotStale ==
    hist.ev = "criteria" /\ filter.staleDays = 0
        => ApplyFiltersAndSort(outfits, search, sort, filter, LaterClock) = filtered

C20_Witness ==
    /\ hist.ev = "criteria"
    /\ filter.staleDays = 0
    /\ filter.fav
    /\ filtered # <<>>
    /\ \E j \in 1..Len(filtered) : filtered[j].lastWornAt = NOW0

-----------------------------------------------------------------------------
(* Claims on the filters and the sort *)

(* what the claim asks of a record, criterion by criterion *)
Favorite(o) == o.favorite
RatingAtLeast(o) == o.rating >= filter.minRating
Stale(o) == o.lastWornAt = 0 \/ o.lastWornAt < now - filter.staleDays * DAY
Tagged(o) == \E n \in DOMAIN o.tags : o.tags[n] = filter.tag
Matches(o) ==
    \/ Includes(ToLowerCase(o.name), ToLowerCase(Trim(search)))
    \/ Includes(ToLowerCase(o.notes), ToLowerCase(Trim(search)))

ActiveCriteria ==
    {c \in {"fav", "minRating", "stale", "tag", "query", "fav_only"} :
        CASE c = "fav" -> filter.fav
          [] c = "minRating" -> filter.minRating > 0
          [] c = "stale" -> filter.staleDays > 0
          [] c = "tag" -> filter.tag # <<>>
          [] c = "query" -> Trim(search) # <<>>
          [] OTHER -> sort = "fav_only"}

Satisfies(o, c) ==
    CASE c = "fav" -> Favorite(o)
      [] c = "minRating" -> RatingAtLeast(o)
      [] c = "stale" -> Stale(o)
      [] c = "tag" -> Tagged(o)
      [] c = "query" -> Matches(o)
      [] OTHER -> Favorite(o)

(* C21: the filters are a conjunction: a record of state.outfits is in      *)
(* state.filtered if and only if it satisfies every active criterion         *)
(* (favorite, minimum rating, stale, exact tag, query in the lowercased name *)
(* or notes, favorite under fav_only); no record of state.filtered is        *)
(* duplicated or invented                                                    *)
C21_FiltersAreConjunction ==
    /\ \A j \in 1..Len(outfits) :
          (\E n \in 1..Len(filtered) : filtered[n] = outfits[j])
              <=> \A c \in ActiveCriteria : Satisfies(outfits[j], c)
    /\ \A n \in 1..Len(filtered) : \E j \in 1..Len(outfits) : outfits[j] = filtered[n]
    /\ \A m, n \in 1..Len(filtered) : filtered[m] = filtered[n] => m = n

(* three criteria are active, one record passes them all and one does not *)
C21_Witness ==
    /\ {"stale", "tag", "query"} \subseteq ActiveCriteria
    /\ Len(outfits) = 2
    /\ Len(filtered) = 1
    /\ \E j \in 1..2 : \E n \in DOMAIN outfits[j].tags : Includes(outfits[j].tags[n], filter.tag)
                                                           /\ outfits[j].tags[n] # filter.tag

NeverWorn(o) == o.lastWornAt = 0

(* C23: in both last-worn sort modes the never-worn sentinel (lastWornAt 0) *)
(* is ordered as the oldest value: under lastworn_asc every never-worn      *)
(* record precedes every worn one, under lastworn_desc it follows every     *)
(* worn one, and the worn records are ordered by lastWornAt ascending,      *)
(* respectively descending                                                  *)
C23_NeverWornIsOldest ==
    \A m, n \in 1..Len(filtered) :
        m < n =>
            LET a == filtered[m]
                b == filtered[n]
            IN  /\ sort = "lastworn_asc" =>
                      /\ ~(NeverWorn(b) /\ ~NeverWorn(a))
                      /\ ~NeverWorn(a) /\ ~NeverWorn(b) => a.lastWornAt <= b.lastWornAt
                /\ sort = "lastworn_desc" =>
                      /\ ~(NeverWorn(a) /\ ~NeverWorn(b))
                      /\ ~NeverWorn(a) /\ ~NeverWorn(b) => a.lastWornAt >= b.lastWornAt

(* the modes that only sort *)
UnfilteredModes ==
    {"fav_first", "date_desc", "date_asc", "rating_desc", "rating_asc", "name_asc", "name_desc",
     "wear_desc", "wear_asc", "lastworn_asc", "lastworn_desc"}

FavOnlyEarly == ApplyFiltersAndSortEarly(outfits, search, "fav_only")

(* C22, as the claim has it: under fav_only the list is a strict subset of *)
(* the list the same records and criteria give under a mode that only      *)
(* sorts, and each of its records is a favorite, in every revision         *)
C22_FavOnlyStrictSubset ==
    /\ sort = "fav_only" =>
          /\ \A n \in 1..Len(filtered) : filtered[n].favorite
          /\ \A s \in UnfilteredModes :
                LET all == SeqSet(ApplyFiltersAndSort(outfits, search, s, filter, now))
                IN  SeqSet(filtered) \subseteq all /\ SeqSet(filtered) # all
    /\ \A n \in 1..Len(FavOnlyEarly) : FavOnlyEarly[n].favorite
    /\ \A s \in EarlySortModes :
          LET all == SeqSet(ApplyFiltersAndSortEarly(outfits, search, s))
          IN  SeqSet(FavOnlyEarly) \subseteq all /\ SeqSet(FavOnlyEarly) # all

(* C22, amended: under fav_only the list is a subset of the list the same  *)
(* records and criteria give under a mode that only sorts (equal to it     *)
(* when every record that passes the other criteria is a favorite), and    *)
(* each of its records is a favorite, in every revision                    *)
C22_FavOnlySubset ==
    /\ sort = "fav_only" =>
          /\ \A n \in 1..Len(filtered) : filtered[n].favorite
          /\ \A s \in UnfilteredModes :
                SeqSet(filtered) \subseteq SeqSet(ApplyFiltersAndSort(outfits, search, s, filter, now))
    /\ \A n \in 1..Len(FavOnlyEarly) : FavOnlyEarly[n].favorite
    /\ \A s \in EarlySortModes :
          SeqSet(FavOnlyEarly) \subseteq SeqSet(ApplyFiltersAndSortEarly(outfits, search, s))

(* fav_only has left out a record that is no favorite and kept one that is *)
C22_Witness ==
    /\ sort = "fav_only"
    /\ Len(filtered) = 1
    /\ Len(ApplyFiltersAndSort(outfits, search, "date_desc", filter, now)) = 2
    /\ Len(FavOnlyEarly) = 1

-----------------------------------------------------------------------------
(* Claims on the pure helpers *)

(* C24: for every input (in range, out of range, negative, fractional, a    *)
(* non-numeric string, null, undefined) clampRating returns an integer in   *)
(* 0..5, and clampRating(clampRating(x)) = clampRating(x)                   *)
C24_ClampRating ==
    /\ hist.ev \in {"clampRating", "clampRatingAgain"} => hist.r \in 0..5
    /\ hist.ev = "clampRatingAgain" => hist.r = hist.first

(* a negative fraction has been clamped, and the result clamped again *)
C24_Witness ==
    /\ hist.ev = "clampRatingAgain"
    /\ hist.n = JFrac(-26)
    /\ hist.r = 0

(* a resize that has decoded its input and encoded the result *)
Resized == hist.ev = "resize" /\ hist.out.result = "jpeg"

Longer == Max(hist.file.width, hist.file.height)

(* side * maxSide / longer rounded to the nearest integer, a half going up, *)
(* respectively down, in exact arithmetic                                    *)
RoundHalfUp(side) == (2 * side * hist.maxSide + Longer) \div (2 * Longer)
RoundHalfDown(side) == (2 * side * hist.maxSide + Longer - 1) \div (2 * Longer)

ResizeBounded ==
    /\ hist.out.width >= 1
    /\ hist.out.height >= 1
    /\ Max(hist.out.width, hist.out.height) <= hist.maxSide
    /\ Longer <= hist.maxSide =>
          hist.out.width = hist.file.width /\ hist.out.height = hist.file.height
    /\ Longer > hist.maxSide => Max(hist.out.width, hist.out.height) = hist.maxSide

(* C25, as the claim has it: resize-normalize never upscales and bounds the *)
(* output: both sides are at least 1 and at most maxSide; the size is the   *)
(* source's when that fits; otherwise the longer side is exactly maxSide    *)
(* and the shorter one is round(shorter * maxSide / longer), at least 1     *)
C25_ResizeExact ==
    Resized =>
        /\ ResizeBounded
        /\ Longer > hist.maxSide =>
              /\ hist.out.width = Max(1, RoundHalfUp(hist.file.width))
              /\ hist.out.height = Max(1, RoundHalfUp(hist.file.height))

(* C25, amended: as above, but the shorter side is an integer nearest to   *)
(* shorter * maxSide / longer, at least 1: when that quotient is exactly a *)
(* half between two integers the code may give the lower one, since it     *)
(* multiplies by the double maxSide / longer                               *)
C25_ResizeNearest ==
    Resized =>
        /\ ResizeBounded
        /\ Longer > hist.maxSide =>
              /\ hist.out.width \in {Max(1, RoundHalfUp(hist.file.width)),
                                     Max(1, RoundHalfDown(hist.file.width))}
              /\ hist.out.height \in {Max(1, RoundHalfUp(hist.file.height)),
                                      Max(1, RoundHalfDown(hist.file.height))}

(* the claim's example: 2000x800 at maxSide 1600 gives 1600x640 *)
C25_Witness ==
    /\ Resized
    /\ hist.file.width = 2000 /\ hist.file.height = 800 /\ hist.maxSide = 1600
    /\ hist.out = Jpeg(1600, 640)

(* C26: center-crop-normalize outputs a square of side                      *)
(* min(maxSide, min(w, h)) for a source of size w x h that it decodes,      *)
(* taken from the source square of side min(w, h) at offset                 *)
(* (floor((w - side) / 2), floor((h - side) / 2)), which lies inside the    *)
(* source and is centred to within one pixel                                *)
C26_CenterCrop ==
    hist.ev = "crop" /\ hist.file.fast /\ hist.file.encodes =>
        LET w == hist.file.width
            h == hist.file.height
            out == hist.out
        IN  /\ out.result = "square"
            /\ out.width = Min(hist.maxSide, Min(w, h))
            /\ out.height = out.width
            /\ out.side = Min(w, h)
            /\ 2 * out.sx <= w - out.side /\ w - out.side < 2 * out.sx + 2
            /\ 2 * out.sy <= h - out.side /\ h - out.side < 2 * out.sy + 2
            /\ out.sx >= 0 /\ out.sx + out.side <= w
            /\ out.sy >= 0 /\ out.sy + out.side <= h
            /\ (w - out.side - out.sx) - out.sx \in {0, 1}
            /\ (h - out.side - out.sy) - out.sy \in {0, 1}

(* the claim's example: 1600x900 at maxSide 1200 gives 900x900 *)
C26_Witness ==
    /\ hist.ev = "crop"
    /\ hist.file = ImageFile(1600, 900, TRUE, TRUE, TRUE)
    /\ hist.maxSide = 1200
    /\ hist.out.width = 900 /\ hist.out.height = 900 /\ hist.out.sx = 350

(* C27: resize-normalize degrades instead of failing: when the fast decode *)
(* fails the slower one is tried, and when both fail fileToSafeJpegBlob     *)
(* returns its input unchanged, so that the add operation goes on to store  *)
(* a record and shows no error                                              *)
C27_DecodeFailureDegrades ==
    hist.ev = "convert" /\ ~hist.file.fast =>
        /\ hist.file.slow /\ hist.file.encodes => hist.out = Jpeg(1600, 640)
        /\ ~hist.file.slow =>
              /\ hist.out = Original(hist.file)
              /\ \E i \in Slots : procs[i].pc = "add"
              /\ toast.hidden

(* the first half on its own: the slower decode is tried when the fast one *)
(* fails                                                                   *)
SlowDecodeTried ==
    hist.ev = "convert" /\ ~hist.file.fast /\ hist.file.slow /\ hist.file.encodes
        => hist.out = Jpeg(1600, 640) /\ \E i \in Slots : procs[i].pc = "add"

-----------------------------------------------------------------------------
(* Claims on overlapping handlers and timers *)

(* C28: each completed wearToday increases the stored wearCount of the     *)
(* selected record by exactly one, no other operation writing the record,  *)
(* also when invocations overlap: the write of a wearToday leaves the      *)
(* store's wearCount one above what the store held just before it          *)
C28_WearCountsEveryClick ==
    hist.ev = "wearPut" /\ hist.before # Null
        => hist.rec.wearCount = hist.before.wearCount + 1

(* C30: in the full-upgrade revision, whenever an openDetail has completed *)
(* and closeDetailModal has not been called since (state.selectedId is not *)
(* null), the detail modal and its backdrop are not hidden, also when the  *)
(* openDetail completes while the hideModal timer of an earlier            *)
(* closeDetailModal is still pending                                       *)
C30_OpenDetailIsShown == selectedId # 0 => ~detailHidden

(* the toast on screen was shown by a deletion and its Undo has not been used *)
DeletionToast == toast.onclick.kind # "none" /\ ~toast.clicked

(* the window of the deletion that showed the toast has not elapsed: a      *)
(* single deletion's toast lasts TTL_DELETED and is measured on the         *)
(* deletion's own state.undoTimer, started in the same step with UNDO_MS;   *)
(* a bulk deletion's toast lasts TTL_BULK_DELETED, the longest delay of all *)
(* toasts, so its timer is pending while any showToast timer is             *)
WindowOpen ==
    IF toast.onclick.kind = "single"
    THEN \E t \in timers : /\ t.kind = "undo"
                           /\ t.cur
                           /\ t.left > Ticks(UNDO_MS) - Ticks(TTL_DELETED)
    ELSE \E t \in timers : t.kind = "toastTtl" /\ t.left > 0

(* C29: after a deletion its undo stays on offer (the toast and its Undo   *)
(* action visible and, for a single deletion, state.lastDeleted holding the *)
(* record) until the deletion's own window elapses or a newer deletion      *)
(* supersedes it: no timer of an earlier toast or deletion ends it early    *)
C29_UndoLastsItsWindow == DeletionToast /\ WindowOpen => UndoPending

====
